---- MODULE Spec2Model ----
(***************************************************************************)
(* Kingdoms & Warfare: the battle engine of src/src/knw/models/battle.js,   *)
(* the intrigue engine of src/src/knw/utils/storage/unit.js and the        *)
(* unit model of src/unnamed/part_005, the domain model of                 *)
(* src/src/knw/models/domain.js, the dice notation of                      *)
(* src/src/knw/utils/dice.js and the entity storage of                     *)
(* src/src/knw/utils/storage.                                              *)
(* The battle is a plain JavaScript object; every transition function is   *)
(* an operator from a battle value (and arguments) to a result record      *)
(*   [b |-> the returned battle, same |-> the argument itself was          *)
(*    returned, threw |-> the call raised a TypeError].                    *)
(* The `created`/`updated`/`timestamp` strings, `id` and `name` carry no   *)
(* control flow and are left out; `same` keeps what `updated` would tell.  *)
(***************************************************************************)
EXTENDS Integers, Sequences, FiniteSets, TLC

VARIABLES battle, last, run, intrigue, ilast, unit, ulast, domain, dlast,
          store, slast, env, indexKey, inflight, roll

battleVars == <<battle, last, run>>
intrigueVars == <<intrigue, ilast>>
unitVars == <<unit, ulast>>
domainVars == <<domain, dlast>>
storeVars == <<store, slast, env, indexKey, inflight>>
diceVars == <<roll>>

vars == <<battleVars, intrigueVars, unitVars, domainVars, storeVars, diceVars>>

(***************************************************************************)
(* Bounds of the exploration                                               *)
(***************************************************************************)
MaxLog == 4
MaxRound == 2
MaxTokens == 1
MaxNotes == 1
MaxTurns == 2
MaxCasualties == 3
MaxSkill == 2
MaxResources == 2
MaxNotation == 4
MaxDice == 2
MaxSides == 2
MaxListed == 2

(***************************************************************************)
(* JavaScript values                                                       *)
(***************************************************************************)
Null == "null"
Undefined == "undefined"
NaN == 0 - 1
ObjectPrototype == "Object.prototype"

UnitIds == {"u1", "u2"}
DomainIds == {"A", "B"}
Tokens == {"hidden"}
Events == {"note"}
\* winningDomainId: a domain, or nothing when no winner was determined
Winners == {"A", Undefined}

BATTLE_PHASES ==
  [SETUP |-> "setup", DEPLOYMENT |-> "deployment", BATTLE |-> "battle", AFTERMATH |-> "aftermath"]

BATTLE_RANKS ==
  [VANGUARD |-> "vanguard", CENTER |-> "center", REAR |-> "rear",
   RESERVE |-> "reserve", NOT_DEPLOYED |-> "not_deployed"]

GRID_POSITIONS == [LEFT |-> "left", CENTER |-> "center", RIGHT |-> "right"]

StructuredRanks == {BATTLE_RANKS.VANGUARD, BATTLE_RANKS.CENTER, BATTLE_RANKS.REAR}
ListRanks == {BATTLE_RANKS.RESERVE, BATTLE_RANKS.NOT_DEPLOYED}
Columns == {GRID_POSITIONS.LEFT, GRID_POSITIONS.CENTER, GRID_POSITIONS.RIGHT}

\* argument values offered to deployUnit: recognised names, a name that is
\* no rank, the key (not the value) of a grid position, a missing column,
\* and a property name every object inherits
AnyRank == StructuredRanks \cup ListRanks \cup {"bogus", "__proto__"}
AnyColumn == Columns \cup {"LEFT", "__proto__", Undefined}
\* a sample of <<rank, column>> pairs: a free cell, a cell without a column,
\* the two lists, and an unknown rank with the key of a grid position
DeployArgs ==
  {<<BATTLE_RANKS.VANGUARD, GRID_POSITIONS.LEFT>>,
   <<BATTLE_RANKS.VANGUARD, Undefined>>,
   <<BATTLE_RANKS.RESERVE, Undefined>>,
   <<BATTLE_RANKS.NOT_DEPLOYED, Undefined>>,
   <<"bogus", "LEFT">>}

\* the domain a unit belongs to, as the command handler reads it from the
\* stored unit before it calls addUnit
DomainOf == [u \in UnitIds |-> "A"]

\* truthiness of a string-valued JavaScript value
Truthy(v) == v # Undefined /\ v # Null

\* obj[key] on an object literal whose own values are strings: own property,
\* else the inherited __proto__ accessor, else undefined
JsGet(obj, key) ==
  IF key \in DOMAIN obj THEN obj[key]
  ELSE IF key = "__proto__" THEN ObjectPrototype
  ELSE Undefined

\* array.includes(x)
includes(seq, x) == \E i \in 1..Len(seq) : seq[i] = x

\* array.filter(id => id !== x)
filterOut(seq, x) == SelectSeq(seq, LAMBDA id : id # x)

\* array[i] with a 0-based index that may be NaN or out of range
At(seq, i) == IF i # NaN /\ i >= 0 /\ i < Len(seq) THEN seq[i + 1] ELSE Undefined

\* the turn counter taken modulo one more than the length
JsSuccModOffByOne(a, n) == IF a = NaN \/ n = 0 THEN NaN ELSE (a + 1) % (n + 1)

\* (a + 1) % n in IEEE arithmetic: NaN when a is NaN or n is 0
JsSuccMod(a, n) == IF a = NaN \/ n = 0 THEN NaN ELSE (a + 1) % n

\* results of a transition function
Same(b) == [b |-> b, same |-> TRUE, threw |-> FALSE]
Fresh(b) == [b |-> b, same |-> FALSE, threw |-> FALSE]
Throw(b) == [b |-> b, same |-> FALSE, threw |-> TRUE]

EmptyRank == [left |-> Null, center |-> Null, right |-> Null]
EmptyMap == [u \in {} |-> Null]

createBattle ==
  [phase |-> BATTLE_PHASES.SETUP,
   round |-> 0,
   domains |-> <<>>,
   units |-> EmptyMap,
   grid |-> [vanguard |-> EmptyRank, center |-> EmptyRank, rear |-> EmptyRank,
             reserve |-> <<>>, not_deployed |-> <<>>],
   initiative |-> <<>>,
   currentTurn |-> 0,
   log |-> <<>>]

addDomain(b, domainId) ==
  IF ~includes(b.domains, domainId)
  THEN Fresh([b EXCEPT !.domains = Append(b.domains, domainId)])
  ELSE Same(b)

\* battle.grid[rank][column] = value, for the ranks and columns a unit's
\* recorded position can name; the __proto__ setter of Object.prototype
\* ignores a string and accepts null without effect
gridAssign(grid, rank, column, value) ==
  IF rank \in StructuredRanks
  THEN [grid EXCEPT ![rank] =
          [k \in (DOMAIN grid[rank]) \cup {column} |->
             IF k = column THEN value ELSE grid[rank][k]]]
  ELSE grid

\* the grid after a unit left the slot its position names
vacate(grid, position, unitId) ==
  IF position.rank = BATTLE_RANKS.NOT_DEPLOYED \/ position.rank = BATTLE_RANKS.RESERVE
  THEN [grid EXCEPT ![position.rank] = filterOut(grid[position.rank], unitId)]
  ELSE gridAssign(grid, position.rank, position.column, Null)

\* removeUnit that leaves the initiative order as it is
removeUnitKeepsInitiative(b, unitId) ==
  IF unitId \notin DOMAIN b.units
  THEN Same(b)
  ELSE Fresh([b EXCEPT
         !.grid = vacate(b.grid, b.units[unitId].position, unitId),
         !.units = [u \in (DOMAIN b.units) \ {unitId} |-> b.units[u]]])

removeUnit(b, unitId) ==
  IF unitId \notin DOMAIN b.units
  THEN Same(b)
  ELSE Fresh([b EXCEPT
         !.grid = vacate(b.grid, b.units[unitId].position, unitId),
         !.initiative = filterOut(b.initiative, unitId),
         !.units = [u \in (DOMAIN b.units) \ {unitId} |-> b.units[u]]])

RECURSIVE removeAll(_, _)
removeAll(b, ids) ==
  IF ids = {} THEN b
  ELSE LET unitId == CHOOSE u \in ids : TRUE
       IN removeAll(removeUnit(b, unitId).b, ids \ {unitId})

removeDomain(b, domainId) ==
  LET updatedBattle == [b EXCEPT !.domains = filterOut(b.domains, domainId)]
      unitIds == {u \in DOMAIN b.units : b.units[u].domainId = domainId}
  IN Fresh(removeAll(updatedBattle, unitIds))

\* addUnit that adds the unit together with a domain new to the battle
addUnitWithDomain(b, unitId, domainId) ==
  IF unitId \in DOMAIN b.units THEN Same(b)
  ELSE Fresh([b EXCEPT
         !.domains = IF includes(b.domains, domainId) THEN b.domains
                     ELSE Append(b.domains, domainId),
         !.units = [u \in (DOMAIN b.units) \cup {unitId} |->
                      IF u = unitId
                      THEN [id |-> unitId,
                            domainId |-> domainId,
                            position |-> [rank |-> BATTLE_RANKS.NOT_DEPLOYED, column |-> Null],
                            activated |-> FALSE,
                            usedReaction |-> FALSE,
                            tokens |-> <<>>]
                      ELSE b.units[u]],
         !.grid.not_deployed = Append(b.grid.not_deployed, unitId)])

addUnit(b, unitId, domainId) ==
  IF unitId \in DOMAIN b.units THEN Same(b)
  ELSE IF ~includes(b.domains, domainId) THEN addDomain(b, domainId)
  ELSE Fresh([b EXCEPT
         !.units = [u \in (DOMAIN b.units) \cup {unitId} |->
                      IF u = unitId
                      THEN [id |-> unitId,
                            domainId |-> domainId,
                            position |-> [rank |-> BATTLE_RANKS.NOT_DEPLOYED, column |-> Null],
                            activated |-> FALSE,
                            usedReaction |-> FALSE,
                            tokens |-> <<>>]
                      ELSE b.units[u]],
         !.grid.not_deployed = Append(b.grid.not_deployed, unitId)])

\* battle.grid[rank][column] as line 220 reads it: a rank the grid has no
\* property for makes the second index a TypeError; Object.prototype is
\* what grid['__proto__'] yields, and its own __proto__ is null
cellRead(grid, rank, column) ==
  IF rank \in DOMAIN grid
  THEN [threw |-> FALSE, value |-> JsGet(grid[rank], column)]
  ELSE IF rank = "__proto__"
  THEN [threw |-> FALSE, value |-> IF column = "__proto__" THEN Null ELSE Undefined]
  ELSE [threw |-> TRUE, value |-> Undefined]

isListRank(rank) == rank = BATTLE_RANKS.RESERVE \/ rank = BATTLE_RANKS.NOT_DEPLOYED

\* line 215: the column is looked up among the KEYS of GRID_POSITIONS
positionValid(rank, column) ==
  isListRank(rank) \/ Truthy(JsGet(GRID_POSITIONS, column))

deployUnit(b, unitId, rank, column) ==
  IF unitId \notin DOMAIN b.units THEN Same(b)
  ELSE IF ~positionValid(rank, column) THEN Same(b)
  ELSE IF ~isListRank(rank) /\ cellRead(b.grid, rank, column).threw THEN Throw(b)
  ELSE IF ~isListRank(rank) /\ cellRead(b.grid, rank, column).value # Null THEN Same(b)
  ELSE LET vacated == vacate(b.grid, b.units[unitId].position, unitId)
           position == [rank |-> rank, column |-> IF isListRank(rank) THEN Null ELSE column]
       IN Fresh([b EXCEPT
            !.units[unitId].position = position,
            !.grid = IF isListRank(rank)
                     THEN [vacated EXCEPT ![rank] = Append(vacated[rank], unitId)]
                     ELSE gridAssign(vacated, rank, column, unitId)])

setInitiative(b, initiative) == Fresh([b EXCEPT !.initiative = initiative])

\* startBattle that refuses only a running battle
startBattleUnlessRunning(b) ==
  IF b.phase = BATTLE_PHASES.BATTLE THEN Same(b)
  ELSE Fresh([b EXCEPT
         !.phase = BATTLE_PHASES.BATTLE,
         !.round = 1,
         !.log = Append(b.log, [type |-> "battle_start", round |-> 1])])

\* startBattle without its phase check
startBattleAnyPhase(b) ==
  Fresh([b EXCEPT
    !.phase = BATTLE_PHASES.BATTLE,
    !.round = 1,
    !.log = Append(b.log, [type |-> "battle_start", round |-> 1])])

startBattle(b) ==
  IF b.phase # BATTLE_PHASES.SETUP THEN Same(b)
  ELSE Fresh([b EXCEPT
         !.phase = BATTLE_PHASES.BATTLE,
         !.round = 1,
         !.log = Append(b.log, [type |-> "battle_start", round |-> 1])])

\* endBattle that refuses only an ended battle
endBattleUnlessEnded(b, winningDomainId) ==
  IF b.phase = BATTLE_PHASES.AFTERMATH THEN Same(b)
  ELSE Fresh([b EXCEPT
         !.phase = BATTLE_PHASES.AFTERMATH,
         !.log = Append(b.log, [type |-> "battle_end", winningDomainId |-> winningDomainId])])

endBattle(b, winningDomainId) ==
  IF b.phase # BATTLE_PHASES.BATTLE THEN Same(b)
  ELSE Fresh([b EXCEPT
         !.phase = BATTLE_PHASES.AFTERMATH,
         !.log = Append(b.log, [type |-> "battle_end", winningDomainId |-> winningDomainId])])

\* activateUnit without the check that it is the unit's turn
activateUnitAnyTurn(b, unitId) ==
  IF b.phase # BATTLE_PHASES.BATTLE THEN Same(b)
  ELSE IF unitId \notin DOMAIN b.units THEN Same(b)
  ELSE Fresh([b EXCEPT
         !.units[unitId].activated = TRUE,
         !.log = Append(b.log, [type |-> "unit_activated", unitId |-> unitId])])

activateUnit(b, unitId) ==
  IF b.phase # BATTLE_PHASES.BATTLE THEN Same(b)
  ELSE IF unitId \notin DOMAIN b.units THEN Same(b)
  ELSE IF At(b.initiative, b.currentTurn) # unitId THEN Same(b)
  ELSE Fresh([b EXCEPT
         !.units[unitId].activated = TRUE,
         !.log = Append(b.log, [type |-> "unit_activated", unitId |-> unitId])])

\* endTurn that leaves the departing unit activated
endTurnKeepsActivated(b) ==
  IF b.phase # BATTLE_PHASES.BATTLE THEN Same(b)
  ELSE LET currentTurn == JsSuccMod(b.currentTurn, Len(b.initiative))
       IN IF currentTurn = 0
          THEN Fresh([b EXCEPT
                 !.currentTurn = currentTurn,
                 !.round = b.round + 1,
                 !.units = [u \in DOMAIN b.units |->
                              [b.units[u] EXCEPT !.usedReaction = FALSE]],
                 !.log = b.log \o << [type |-> "round_end", round |-> b.round],
                                     [type |-> "round_start", round |-> b.round + 1] >>])
          ELSE Fresh([b EXCEPT !.currentTurn = currentTurn])

\* endTurn that starts a new round without logging it
endTurnUnlogged(b) ==
  IF b.phase # BATTLE_PHASES.BATTLE THEN Same(b)
  ELSE LET currentUnitId == At(b.initiative, b.currentTurn)
           deactivated == [u \in DOMAIN b.units |->
                             IF u = currentUnitId
                             THEN [b.units[u] EXCEPT !.activated = FALSE]
                             ELSE b.units[u]]
           currentTurn == JsSuccMod(b.currentTurn, Len(b.initiative))
       IN IF currentTurn = 0
          THEN Fresh([b EXCEPT
                 !.currentTurn = currentTurn,
                 !.round = b.round + 1,
                 !.units = [u \in DOMAIN b.units |->
                              [deactivated[u] EXCEPT !.usedReaction = FALSE]]])
          ELSE Fresh([b EXCEPT !.currentTurn = currentTurn, !.units = deactivated])

endTurn(b) ==
  IF b.phase # BATTLE_PHASES.BATTLE THEN Same(b)
  ELSE LET currentUnitId == At(b.initiative, b.currentTurn)
           deactivated == [u \in DOMAIN b.units |->
                             IF u = currentUnitId
                             THEN [b.units[u] EXCEPT !.activated = FALSE]
                             ELSE b.units[u]]
           currentTurn == JsSuccMod(b.currentTurn, Len(b.initiative))
       IN IF currentTurn = 0
          THEN Fresh([b EXCEPT
                 !.currentTurn = currentTurn,
                 !.round = b.round + 1,
                 !.units = [u \in DOMAIN b.units |->
                              [deactivated[u] EXCEPT !.usedReaction = FALSE]],
                 !.log = b.log \o << [type |-> "round_end", round |-> b.round],
                                     [type |-> "round_start", round |-> b.round + 1] >>])
          ELSE Fresh([b EXCEPT !.currentTurn = currentTurn, !.units = deactivated])

addToken(b, unitId, token) ==
  IF unitId \notin DOMAIN b.units THEN Same(b)
  ELSE Fresh([b EXCEPT !.units[unitId].tokens = Append(b.units[unitId].tokens, token)])

removeToken(b, unitId, token) ==
  IF unitId \notin DOMAIN b.units THEN Same(b)
  ELSE Fresh([b EXCEPT !.units[unitId].tokens = filterOut(b.units[unitId].tokens, token)])

\* logEvent that starts the log afresh with the entry
logEventAfresh(b, event) == Fresh([b EXCEPT !.log = <<[type |-> event]>>])

logEvent(b, event) == Fresh([b EXCEPT !.log = Append(b.log, [type |-> event])])

\* the top-level properties of the battle whose objects a function changes in
\* place (an assignment into battle.grid or battle.units[id], a push onto
\* battle.log): the shallow copy it returns shares them with its argument
inPlace(op) ==
  CASE op = "removeUnit" -> {"grid"}
    [] op = "removeDomain" -> {"grid"}
    [] op = "deployUnit" -> {"grid", "units"}
    [] op = "startBattle" -> {"log"}
    [] op = "endBattle" -> {"log"}
    [] op = "activateUnit" -> {"log"}
    [] op = "endTurn" -> {"units", "log"}
    [] OTHER -> {}

\* the value the caller passed, as the caller finds it after the call: the
\* properties changed in place read as in the returned value
callerValue(shared, b, res) ==
  IF res.same \/ res.threw THEN b
  ELSE [f \in DOMAIN b |-> IF f \in shared THEN res.b[f] ELSE b[f]]

(***************************************************************************)
(* The intrigue engine. A function whose name the battle model also        *)
(* exports carries the word intrigue in front.                             *)
(***************************************************************************)
IntrigueDomainIds == {"D1", "D2", "D3"}

INTRIGUE_PHASES == [SETUP |-> "setup", ACTIVE |-> "active", RESOLUTION |-> "resolution"]

INTRIGUE_ACTION_TYPES ==
  [SKILL_TEST |-> "skill_test", DEFENSE_MODIFICATION |-> "defense_modification",
   RESOURCE_TRANSFER |-> "resource_transfer", UNIT_CREATION |-> "unit_creation",
   UNIT_MODIFICATION |-> "unit_modification", SPECIAL |-> "special"]

\* the turn orders offered to setTurnOrder: none, and one of two domains
\* that leaves the third out
TurnOrders == {<<>>, <<"D2", "D1">>}

\* the actions offered to takeTurn, each known by its type
IntrigueActions == {INTRIGUE_ACTION_TYPES.SPECIAL}

createIntrigue ==
  [phase |-> INTRIGUE_PHASES.SETUP,
   domains |-> <<>>,
   initiator |-> Null,
   turnOrder |-> <<>>,
   currentDomainIndex |-> 0,
   turns |-> <<>>,
   log |-> <<>>]

intrigueAddDomain(i, domainId) ==
  IF ~includes(i.domains, domainId)
  THEN Fresh([i EXCEPT !.domains = Append(i.domains, domainId)])
  ELSE Same(i)

\* removeDomain that leaves the initiator as it is
intrigueRemoveDomainKeepsInitiator(i, domainId) ==
  Fresh([i EXCEPT
    !.domains = filterOut(i.domains, domainId),
    !.turnOrder = filterOut(i.turnOrder, domainId)])

intrigueRemoveDomain(i, domainId) ==
  Fresh([i EXCEPT
    !.domains = filterOut(i.domains, domainId),
    !.initiator = IF i.initiator = domainId THEN Null ELSE i.initiator,
    !.turnOrder = filterOut(i.turnOrder, domainId)])

setInitiator(i, domainId) ==
  IF ~includes(i.domains, domainId) THEN intrigueAddDomain(i, domainId)
  ELSE Fresh([i EXCEPT !.initiator = domainId])

setTurnOrder(i, turnOrder) == Fresh([i EXCEPT !.turnOrder = turnOrder])

\* startIntrigue without the check that two domains are members
startIntrigueAnyDomains(i) ==
  IF i.phase # INTRIGUE_PHASES.SETUP THEN Same(i)
  ELSE IF ~Truthy(i.initiator) THEN Same(i)
  ELSE Fresh([i EXCEPT
         !.phase = INTRIGUE_PHASES.ACTIVE,
         !.turnOrder = IF Len(i.turnOrder) = 0
                       THEN <<i.initiator>> \o filterOut(i.domains, i.initiator)
                       ELSE i.turnOrder,
         !.log = Append(i.log, [type |-> "intrigue_start"])])

\* startIntrigue that takes the domains as added for the turn order
startIntrigueAsAdded(i) ==
  IF i.phase # INTRIGUE_PHASES.SETUP THEN Same(i)
  ELSE IF ~Truthy(i.initiator) THEN Same(i)
  ELSE IF Len(i.domains) < 2 THEN Same(i)
  ELSE Fresh([i EXCEPT
         !.phase = INTRIGUE_PHASES.ACTIVE,
         !.turnOrder = IF Len(i.turnOrder) = 0 THEN i.domains ELSE i.turnOrder,
         !.log = Append(i.log, [type |-> "intrigue_start"])])

startIntrigue(i) ==
  IF i.phase # INTRIGUE_PHASES.SETUP THEN Same(i)
  ELSE IF ~Truthy(i.initiator) THEN Same(i)
  ELSE IF Len(i.domains) < 2 THEN Same(i)
  ELSE Fresh([i EXCEPT
         !.phase = INTRIGUE_PHASES.ACTIVE,
         !.turnOrder = IF Len(i.turnOrder) = 0
                       THEN <<i.initiator>> \o filterOut(i.domains, i.initiator)
                       ELSE i.turnOrder,
         !.log = Append(i.log, [type |-> "intrigue_start"])])

\* endIntrigue that refuses only an intrigue still in setup
endIntrigueUnlessSetup(i) ==
  IF i.phase = INTRIGUE_PHASES.SETUP THEN Same(i)
  ELSE Fresh([i EXCEPT
         !.phase = INTRIGUE_PHASES.RESOLUTION,
         !.log = Append(i.log, [type |-> "intrigue_end"])])

endIntrigue(i) ==
  IF i.phase # INTRIGUE_PHASES.ACTIVE THEN Same(i)
  ELSE Fresh([i EXCEPT
         !.phase = INTRIGUE_PHASES.RESOLUTION,
         !.log = Append(i.log, [type |-> "intrigue_end"])])

\* takeTurn without the check that it is the domain's turn
takeTurnAnyMember(i, domainId, action) ==
  IF i.phase # INTRIGUE_PHASES.ACTIVE THEN Same(i)
  ELSE IF ~includes(i.domains, domainId) THEN Same(i)
  ELSE Fresh([i EXCEPT
         !.turns = Append(i.turns, [domainId |-> domainId, action |-> action]),
         !.log = Append(i.log, [type |-> "turn_taken", domainId |-> domainId, action |-> action]),
         !.currentDomainIndex = JsSuccMod(i.currentDomainIndex, Len(i.turnOrder))])

\* takeTurn that leaves the turn with the domain that took it
takeTurnStays(i, domainId, action) ==
  IF i.phase # INTRIGUE_PHASES.ACTIVE THEN Same(i)
  ELSE IF ~includes(i.domains, domainId) THEN Same(i)
  ELSE IF At(i.turnOrder, i.currentDomainIndex) # domainId THEN Same(i)
  ELSE Fresh([i EXCEPT
         !.turns = Append(i.turns, [domainId |-> domainId, action |-> action]),
         !.log = Append(i.log, [type |-> "turn_taken", domainId |-> domainId, action |-> action])])

takeTurn(i, domainId, action) ==
  IF i.phase # INTRIGUE_PHASES.ACTIVE THEN Same(i)
  ELSE IF ~includes(i.domains, domainId) THEN Same(i)
  ELSE IF At(i.turnOrder, i.currentDomainIndex) # domainId THEN Same(i)
  ELSE Fresh([i EXCEPT
         !.turns = Append(i.turns, [domainId |-> domainId, action |-> action]),
         !.log = Append(i.log, [type |-> "turn_taken", domainId |-> domainId, action |-> action]),
         !.currentDomainIndex = JsSuccMod(i.currentDomainIndex, Len(i.turnOrder))])

\* logEvent of the intrigue model
intrigueLogEvent(i, event) == Fresh([i EXCEPT !.log = Append(i.log, [type |-> event])])

\* the top-level properties of the intrigue whose objects a function changes
\* in place: the three functions that push onto the log of their copy
intrigueInPlace(op) ==
  CASE op = "startIntrigue" -> {"log"}
    [] op = "endIntrigue" -> {"log"}
    [] op = "takeTurn" -> {"log"}
    [] OTHER -> {}

(***************************************************************************)
(* The unit model: the casualty die and the conditions of one unit         *)
(***************************************************************************)
UNIT_TYPES ==
  [INFANTRY |-> "infantry", CAVALRY |-> "cavalry", ARTILLERY |-> "artillery",
   AERIAL |-> "aerial"]

UNIT_TIERS == [I |-> 1, II |-> 2, III |-> 3, IV |-> 4, V |-> 5]

UNIT_CONDITIONS ==
  [BROKEN |-> "broken", DISBANDED |-> "disbanded", DISORGANIZED |-> "disorganized",
   DISORIENTED |-> "disoriented", EXPOSED |-> "exposed", HIDDEN |-> "hidden",
   MISLED |-> "misled", WEAKENED |-> "weakened"]

UnitTypes == {UNIT_TYPES[k] : k \in DOMAIN UNIT_TYPES}
UnitTiers == {UNIT_TIERS[k] : k \in DOMAIN UNIT_TIERS}
\* the conditions offered to addCondition and removeCondition
Conditions == {UNIT_CONDITIONS.BROKEN, UNIT_CONDITIONS.HIDDEN}

MathMax(a, b) == IF a >= b THEN a ELSE b
MathMin(a, b) == IF a <= b THEN a ELSE b

\* calculateAttacks without the minimum of 1 attack
calculateAttacksUnfloored(tier, type) ==
  LET baseAttacks == [t \in UnitTiers |-> <<1, 1, 2, 2, 3>>[t]]
      typeModifiers == [ty \in UnitTypes |->
                          IF ty = UNIT_TYPES.ARTILLERY THEN 0 - 1 ELSE 0]
  IN baseAttacks[tier] + typeModifiers[type]

calculateAttacks(tier, type) ==
  LET baseAttacks == [t \in UnitTiers |-> <<1, 1, 2, 2, 3>>[t]]
      typeModifiers == [ty \in UnitTypes |->
                          IF ty = UNIT_TYPES.ARTILLERY THEN 0 - 1 ELSE 0]
  IN MathMax(1, baseAttacks[tier] + typeModifiers[type])

calculateDamage(tier, type) ==
  LET baseDamage == [t \in UnitTiers |-> <<1, 1, 2, 2, 3>>[t]]
      typeModifiers == [ty \in UnitTypes |->
                          IF ty \in {UNIT_TYPES.CAVALRY, UNIT_TYPES.ARTILLERY}
                          THEN 1 ELSE 0]
  IN baseDamage[tier] + typeModifiers[type]

calculateCasualtyDie(tier, type) ==
  LET baseCasualtyDie == [t \in UnitTiers |-> t]
      typeModifiers == [ty \in UnitTypes |->
                          IF ty \in {UNIT_TYPES.ARTILLERY, UNIT_TYPES.AERIAL}
                          THEN 0 - 1 ELSE 0]
  IN MathMax(1, baseCasualtyDie[tier] + typeModifiers[type])

createUnit(tier, type) ==
  [type |-> type,
   tier |-> tier,
   stats |-> [attacks |-> calculateAttacks(tier, type),
              damage |-> calculateDamage(tier, type)],
   casualtyDie |-> [current |-> calculateCasualtyDie(tier, type),
                    max |-> calculateCasualtyDie(tier, type)],
   conditions |-> <<>>]

addCondition(u, condition) ==
  IF ~includes(u.conditions, condition)
  THEN [u EXCEPT !.conditions = Append(u.conditions, condition)]
  ELSE u

removeCondition(u, condition) ==
  [u EXCEPT !.conditions = filterOut(u.conditions, condition)]

\* takeCasualties that never marks the unit broken
takeCasualtiesUnmarked(u, casualties) ==
  [u EXCEPT !.casualtyDie.current = MathMax(0, u.casualtyDie.current - casualties)]

takeCasualties(u, casualties) ==
  LET newCasualtyDie == MathMax(0, u.casualtyDie.current - casualties)
      isBroken == newCasualtyDie = 0
  IN [u EXCEPT
       !.casualtyDie.current = newCasualtyDie,
       !.conditions = IF isBroken /\ ~includes(u.conditions, UNIT_CONDITIONS.BROKEN)
                      THEN Append(u.conditions, UNIT_CONDITIONS.BROKEN)
                      ELSE u.conditions]

\* rallyCasualties that refills the die whatever the amount
rallyCasualtiesRefills(u, casualties) ==
  LET newCasualtyDie == u.casualtyDie.max
  IN [u EXCEPT
       !.casualtyDie.current = newCasualtyDie,
       !.conditions = IF newCasualtyDie > 0 /\ includes(u.conditions, UNIT_CONDITIONS.BROKEN)
                      THEN filterOut(u.conditions, UNIT_CONDITIONS.BROKEN)
                      ELSE u.conditions]

\* rallyCasualties that does not stop at the maximum of the die
rallyCasualtiesUncapped(u, casualties) ==
  LET newCasualtyDie == u.casualtyDie.current + casualties
  IN [u EXCEPT
       !.casualtyDie.current = newCasualtyDie,
       !.conditions = IF newCasualtyDie > 0 /\ includes(u.conditions, UNIT_CONDITIONS.BROKEN)
                      THEN filterOut(u.conditions, UNIT_CONDITIONS.BROKEN)
                      ELSE u.conditions]

rallyCasualties(u, casualties) ==
  LET newCasualtyDie == MathMin(u.casualtyDie.max, u.casualtyDie.current + casualties)
  IN [u EXCEPT
       !.casualtyDie.current = newCasualtyDie,
       !.conditions = IF newCasualtyDie > 0 /\ includes(u.conditions, UNIT_CONDITIONS.BROKEN)
                      THEN filterOut(u.conditions, UNIT_CONDITIONS.BROKEN)
                      ELSE u.conditions]

(***************************************************************************)
(* The domain model, src/src/knw/models/domain.js. A skills object is a     *)
(* function from the skill names it holds to integers; reading a skill it   *)
(* does not hold gives undefined, and a sum with undefined is NaN.          *)
(***************************************************************************)
DOMAIN_SKILLS ==
  [DIPLOMACY |-> "diplomacy", ESPIONAGE |-> "espionage", LORE |-> "lore",
   OPERATIONS |-> "operations"]

DOMAIN_DEFENSES ==
  [COMMUNICATIONS |-> "communications", RESOLVE |-> "resolve", RESOURCES |-> "resources"]

SkillNames == {DOMAIN_SKILLS[k] : k \in DOMAIN DOMAIN_SKILLS}
SkillValues == (0 - MaxSkill)..MaxSkill
\* the skills objects a caller can supply: any of the four skills may be
\* missing
SuppliedSkills == UNION {[K -> SkillValues] : K \in SUBSET SkillNames}
\* the changes offered to updateSkills: at most one skill
SkillChanges ==
  UNION {[K -> SkillValues] : K \in {S \in SUBSET SkillNames : Cardinality(S) <= 1}}
\* the amounts offered to addResources and removeResources
Amounts == (0 - MaxResources)..MaxResources

\* the default of the `skills` property of createDomain
DefaultSkills == [k \in SkillNames |-> 0]

\* 10 + Math.floor((skills[a] + skills[b]) / 2)
halfSum(skills, a, b) ==
  IF a \in DOMAIN skills /\ b \in DOMAIN skills
  THEN 10 + ((skills[a] + skills[b]) \div 2)
  ELSE NaN

calculateDefenseScores(skills) ==
  [communications |-> halfSum(skills, DOMAIN_SKILLS.DIPLOMACY, DOMAIN_SKILLS.ESPIONAGE),
   resolve |-> halfSum(skills, DOMAIN_SKILLS.DIPLOMACY, DOMAIN_SKILLS.LORE),
   resources |-> halfSum(skills, DOMAIN_SKILLS.OPERATIONS, DOMAIN_SKILLS.LORE)]

createDomain(skills) ==
  [skills |-> [k \in SkillNames |-> IF k \in DOMAIN skills THEN skills[k] ELSE 0],
   defenseScores |-> calculateDefenseScores(skills),
   defenseLevels |-> [k \in {DOMAIN_DEFENSES[n] : n \in DOMAIN DOMAIN_DEFENSES} |-> 0],
   resources |-> 0,
   units |-> <<>>,
   officers |-> <<>>]

updateSkills(d, skills) ==
  LET updatedSkills == [k \in (DOMAIN d.skills) \cup (DOMAIN skills) |->
                          IF k \in DOMAIN skills THEN skills[k] ELSE d.skills[k]]
  IN [d EXCEPT !.skills = updatedSkills,
               !.defenseScores = calculateDefenseScores(updatedSkills)]

addResources(d, amount) == [d EXCEPT !.resources = d.resources + amount]

removeResources(d, amount) == [d EXCEPT !.resources = MathMax(0, d.resources - amount)]

\* Domain.addUnit and Domain.removeUnit
domainAddUnit(d, unitId) ==
  IF includes(d.units, unitId) THEN d
  ELSE [d EXCEPT !.units = Append(d.units, unitId)]

domainRemoveUnit(d, unitId) == [d EXCEPT !.units = filterOut(d.units, unitId)]

(***************************************************************************)
(* Dice notation, src/src/knw/utils/dice.js. A notation is the sequence of  *)
(* its characters; the regular expression                                  *)
(*   /(\d+)?d(\d+)(?:([-+])(\d+))?/i                                        *)
(* is not anchored: String.match finds its leftmost match anywhere in the  *)
(* notation.                                                               *)
(***************************************************************************)
DigitValue ==
  [c \in {"0", "1", "2", "3", "4", "5", "6", "7", "8", "9"} |->
     CASE c = "0" -> 0 [] c = "1" -> 1 [] c = "2" -> 2 [] c = "3" -> 3 [] c = "4" -> 4
       [] c = "5" -> 5 [] c = "6" -> 6 [] c = "7" -> 7 [] c = "8" -> 8 [] c = "9" -> 9]

\* the characters a notation is written with here: two digits, the die
\* letter, the two operators and a character the expression has no use for
Characters == {"0", "2", "d", "+", "-", "x"}
Notations == UNION {[1..n -> Characters] : n \in 0..MaxNotation}

isDigit(c) == c \in DOMAIN DigitValue

\* \d+ is greedy: the length of the longest run of digits from position p
digitRun(str, p) ==
  CHOOSE n \in 0..Len(str) :
    /\ p + n - 1 <= Len(str)
    /\ \A k \in 0..(n - 1) : isDigit(str[p + k])
    /\ (p + n > Len(str) \/ ~isDigit(str[p + n]))

\* the match of the expression that starts at position p, if there is one:
\* groups 1 to 4, a group that took no part being undefined
matchAt(str, p) ==
  LET countLen == digitRun(str, p)
      d == p + countLen
      sidesLen == IF d < Len(str) THEN digitRun(str, d + 1) ELSE 0
      op == d + 1 + sidesLen
      modifierLen == IF op < Len(str) /\ str[op] \in {"+", "-"}
                     THEN digitRun(str, op + 1) ELSE 0
  IN IF d <= Len(str) /\ str[d] \in {"d", "D"} /\ sidesLen >= 1
     THEN [found |-> TRUE,
           g1 |-> IF countLen = 0 THEN Undefined ELSE SubSeq(str, p, d - 1),
           g2 |-> SubSeq(str, d + 1, d + sidesLen),
           g3 |-> IF modifierLen = 0 THEN Undefined ELSE str[op],
           g4 |-> IF modifierLen = 0 THEN Undefined
                  ELSE SubSeq(str, op + 1, op + modifierLen)]
     ELSE [found |-> FALSE, g1 |-> Undefined, g2 |-> Undefined, g3 |-> Undefined,
           g4 |-> Undefined]

\* notation.match(regex): the leftmost match, or null
match(str) ==
  IF \E p \in 1..Len(str) : matchAt(str, p).found
  THEN matchAt(str, CHOOSE p \in 1..Len(str) :
                      /\ matchAt(str, p).found
                      /\ \A q \in 1..(p - 1) : ~matchAt(str, q).found)
  ELSE [found |-> FALSE, g1 |-> Undefined, g2 |-> Undefined, g3 |-> Undefined,
        g4 |-> Undefined]

RECURSIVE parseInt(_)
\* parseInt(digits, 10) of a string of decimal digits
parseInt(digits) ==
  IF Len(digits) = 0 THEN 0
  ELSE 10 * parseInt(SubSeq(digits, 1, Len(digits) - 1)) + DigitValue[digits[Len(digits)]]

RECURSIVE sum(_)
\* rolls.reduce((total, roll) => total + roll, 0)
sum(rolls) == IF Len(rolls) = 0 THEN 0 ELSE rolls[1] + sum(Tail(rolls))

\* Math.floor(Math.random() * sides) + 1, Math.random() being in [0, 1)
rollDie(sides) == IF sides = 0 THEN {1} ELSE 1..sides

\* the arrays rollDice(count, sides) can return
rollDice(count, sides) == [1..count -> rollDie(sides)]

\* the dice rollFromNotation rolls: match[1] || 1 and match[2]
diceOf(m) ==
  [count |-> IF m.g1 = Undefined THEN 1 ELSE parseInt(m.g1),
   sides |-> parseInt(m.g2)]

\* what rollFromNotation returns when rollDice gave `rolls`, or throws
rollFromNotation(notation, m, rolls) ==
  IF ~m.found
  THEN [notation |-> notation, called |-> TRUE, threw |-> TRUE, rolls |-> <<>>,
        modifier |-> Null, result |-> 0]
  ELSE LET modifier == IF m.g4 = Undefined THEN 0 ELSE parseInt(m.g4)
       IN [notation |-> notation, called |-> TRUE, threw |-> FALSE, rolls |-> rolls,
           modifier |-> IF m.g3 = Undefined THEN Null ELSE <<m.g3, modifier>>,
           result |-> IF m.g3 = "+" THEN sum(rolls) + modifier
                      ELSE IF m.g3 = "-" THEN sum(rolls) - modifier
                      ELSE sum(rolls)]

\* a notation nobody has rolled yet
NotRolled(notation) ==
  [notation |-> notation, called |-> FALSE, threw |-> FALSE, rolls |-> <<>>,
   modifier |-> Null, result |-> 0]

(***************************************************************************)
(* Storage: src/src/knw/utils/storage/core.js (values and intrigues),      *)
(* storage/unit.js (units), src/unnamed/part_002 (battles) and part_006    *)
(* (domains). The store holds the entities of each kind under their ids    *)
(* and, per kind, the list of ids kept under the key index:<kind>; an      *)
(* index that was never written reads as the empty list (getValue(...) ||  *)
(* []).                                                                    *)
(***************************************************************************)
BattleIds == {"b1"}
IntrigueIds == {"i1"}
Kinds == {"units", "domains", "battles", "intrigues"}

memoryStorage ==
  [units |-> EmptyMap, domains |-> EmptyMap, battles |-> EmptyMap, intrigues |-> EmptyMap,
   index |-> [kind \in Kinds |-> <<>>]]

\* the values a caller saves: a new unit; a domain with none, one or both of
\* the units; a new battle and a battle that domain A fights with unit u1;
\* a new intrigue and one that domain A started
StoredUnits == {createUnit(UNIT_TIERS.I, UNIT_TYPES.INFANTRY)}
StoredDomains ==
  {createDomain(DefaultSkills),
   domainAddUnit(createDomain(DefaultSkills), "u1"),
   domainAddUnit(domainAddUnit(createDomain(DefaultSkills), "u1"), "u2")}
StoredBattles ==
  {createBattle,
   setInitiative(addUnit(addDomain(createBattle, "A").b, "u1", "A").b, <<"u1">>).b}
StoredIntrigues ==
  {createIntrigue,
   setInitiator(intrigueAddDomain(createIntrigue, "A").b, "A").b}

\* putValue and deleteValue on the key <kind>:<id>
putValue(s, kind, id, value) ==
  [s EXCEPT ![kind] = [k \in (DOMAIN s[kind]) \cup {id} |->
                         IF k = id THEN value ELSE s[kind][k]]]

deleteValue(s, kind, id) ==
  [s EXCEPT ![kind] = [k \in (DOMAIN s[kind]) \ {id} |-> s[kind][k]]]

\* the save of an entity that pushes the id onto the index every time
saveAlwaysIndexed(s, kind, id, value) ==
  LET put == putValue(s, kind, id, value)
  IN [put EXCEPT !.index[kind] = Append(put.index[kind], id)]

\* saveUnit, saveDomain, saveBattle and saveIntrigue: the value is put, and
\* the id is pushed onto the index unless the index includes it
save(s, kind, id, value) ==
  LET put == putValue(s, kind, id, value)
  IN IF ~includes(put.index[kind], id)
     THEN [put EXCEPT !.index[kind] = Append(put.index[kind], id)]
     ELSE put

saveUnit(s, id, value) == save(s, "units", id, value)
saveDomain(s, id, value) == save(s, "domains", id, value)
saveBattle(s, id, value) == save(s, "battles", id, value)
saveIntrigue(s, id, value) == save(s, "intrigues", id, value)

\* the commands that run at the same time, the kinds they save and the ids
\* they save under
Commands == {"c1", "c2"}
SavedKinds == {"battles", "intrigues"}
SavedIds == [battles |-> {"b1", "b2", "b3"}, intrigues |-> {"i1", "i2", "i3"}]
SavedValues == [battles |-> StoredBattles, intrigues |-> StoredIntrigues]

\* a command that has not called save yet
NotCalled ==
  [at |-> "start", kind |-> Null, id |-> Null, shared |-> FALSE, battleIndex |-> <<>>]

\* `await getValue(env, namespace, indexKey) || []`: a KV namespace parses
\* a new array from the stored text; the memory of the process hands out
\* the stored array itself (shared), or a new empty array when the key
\* holds nothing
getIndex(s, e, present, kind) ==
  IF e.cloudflare THEN [shared |-> FALSE, battleIndex |-> s.index[kind]]
  ELSE IF present[kind] THEN [shared |-> TRUE, battleIndex |-> <<>>]
  ELSE [shared |-> FALSE, battleIndex |-> <<>>]

\* the array a command holds as battleIndex
held(s, c) == IF c.shared THEN s.index[c.kind] ELSE c.battleIndex

\* the index key after `if (!battleIndex.includes(id)) { push; putValue }`
putIndex(s, c) ==
  IF ~includes(held(s, c), c.id)
  THEN [s EXCEPT !.index[c.kind] = Append(held(s, c), c.id)]
  ELSE s

\* The helpers of the battle storage change the object getBattle returned
\* and save it. The memory of the process returns the stored object itself,
\* so a change made before a return without saveBattle is stored all the
\* same; a KV namespace returns a copy, and the change is lost.
unsaved(s, e, battleId, value) ==
  IF e.cloudflare THEN s ELSE [s EXCEPT !.battles[battleId] = value]

addUnitToBattle(s, e, battleId, unitId, domainId) ==
  IF battleId \notin DOMAIN s.battles THEN [s |-> s, ok |-> FALSE]
  ELSE LET found == s.battles[battleId]
           withDomain == IF ~includes(found.domains, domainId)
                         THEN [found EXCEPT !.domains = Append(found.domains, domainId)]
                         ELSE found
       IN IF unitId \in DOMAIN found.units
          THEN [s |-> unsaved(s, e, battleId, withDomain), ok |-> TRUE]
          ELSE [s |-> saveBattle(s, battleId,
                        [withDomain EXCEPT
                           !.units = [u \in (DOMAIN found.units) \cup {unitId} |->
                                        IF u = unitId
                                        THEN [id |-> unitId,
                                              domainId |-> domainId,
                                              position |-> [rank |-> "not_deployed",
                                                            column |-> Null],
                                              activated |-> FALSE,
                                              usedReaction |-> FALSE,
                                              tokens |-> <<>>]
                                        ELSE found.units[u]],
                           !.grid.not_deployed = Append(found.grid.not_deployed, unitId)]),
                ok |-> TRUE]

removeUnitFromBattle(s, battleId, unitId) ==
  IF battleId \notin DOMAIN s.battles THEN [s |-> s, ok |-> FALSE]
  ELSE LET found == s.battles[battleId]
       IN IF unitId \notin DOMAIN found.units THEN [s |-> s, ok |-> TRUE]
          ELSE LET position == found.units[unitId].position
                   grid == IF position.rank = "not_deployed" \/ position.rank = "reserve"
                           THEN [found.grid EXCEPT
                                   ![position.rank] = filterOut(found.grid[position.rank], unitId)]
                           ELSE IF /\ position.rank \in StructuredRanks
                                   /\ position.column \in Columns
                                   /\ found.grid[position.rank][position.column] = unitId
                           THEN gridAssign(found.grid, position.rank, position.column, Null)
                           ELSE found.grid
               IN [s |-> saveBattle(s, battleId,
                           [found EXCEPT
                              !.grid = grid,
                              !.initiative = filterOut(found.initiative, unitId),
                              !.units = [u \in (DOMAIN found.units) \ {unitId} |->
                                           found.units[u]]]),
                   ok |-> TRUE]

removeDomainFromBattle(s, battleId, domainId) ==
  IF battleId \notin DOMAIN s.battles THEN [s |-> s, ok |-> FALSE]
  ELSE LET found == s.battles[battleId]
       IN IF ~includes(found.domains, domainId) THEN [s |-> s, ok |-> TRUE]
          ELSE [s |-> saveBattle(s, battleId,
                        [found EXCEPT
                           !.domains = filterOut(found.domains, domainId),
                           !.units = [u \in {v \in DOMAIN found.units :
                                               found.units[v].domainId # domainId} |->
                                        found.units[u]]]),
                ok |-> TRUE]

\* The helpers of the intrigue storage; each changes the stored session and
\* saves it.
addDomainToIntrigue(s, intrigueId, domainId) ==
  IF intrigueId \notin DOMAIN s.intrigues THEN [s |-> s, ok |-> FALSE]
  ELSE LET found == s.intrigues[intrigueId]
       IN IF includes(found.domains, domainId) THEN [s |-> s, ok |-> TRUE]
          ELSE [s |-> saveIntrigue(s, intrigueId,
                        [found EXCEPT !.domains = Append(found.domains, domainId)]),
                ok |-> TRUE]

removeDomainFromIntrigue(s, intrigueId, domainId) ==
  IF intrigueId \notin DOMAIN s.intrigues THEN [s |-> s, ok |-> FALSE]
  ELSE LET found == s.intrigues[intrigueId]
           updated == includes(found.domains, domainId) \/ found.initiator = domainId
       IN IF ~updated THEN [s |-> s, ok |-> TRUE]
          ELSE [s |-> saveIntrigue(s, intrigueId,
                        [found EXCEPT
                           !.domains = filterOut(found.domains, domainId),
                           !.initiator = IF found.initiator = domainId
                                         THEN Null ELSE found.initiator]),
                ok |-> TRUE]

setIntrigueInitiator(s, intrigueId, domainId) ==
  IF intrigueId \notin DOMAIN s.intrigues THEN [s |-> s, ok |-> FALSE]
  ELSE LET found == s.intrigues[intrigueId]
       IN [s |-> saveIntrigue(s, intrigueId,
                   [found EXCEPT
                      !.domains = IF includes(found.domains, domainId)
                                  THEN found.domains
                                  ELSE Append(found.domains, domainId),
                      !.initiator = domainId]),
           ok |-> TRUE]

addIntrigueTurn(s, intrigueId, domainId, action) ==
  IF intrigueId \notin DOMAIN s.intrigues THEN [s |-> s, ok |-> FALSE]
  ELSE LET found == s.intrigues[intrigueId]
       IN IF ~includes(found.domains, domainId) THEN [s |-> s, ok |-> TRUE]
          ELSE [s |-> saveIntrigue(s, intrigueId,
                        [found EXCEPT
                           !.turns = Append(found.turns,
                                       [domainId |-> domainId, action |-> action]),
                           !.log = Append(found.log,
                                     [type |-> "turn_taken", domainId |-> domainId,
                                      action |-> action]),
                           !.currentDomainIndex =
                              IF Len(found.turnOrder) > 0
                              THEN JsSuccMod(found.currentDomainIndex, Len(found.turnOrder))
                              ELSE found.currentDomainIndex]),
                ok |-> TRUE]

\* startIntrigue of the storage
startStoredIntrigue(s, intrigueId) ==
  IF intrigueId \notin DOMAIN s.intrigues THEN [s |-> s, ok |-> FALSE]
  ELSE LET found == s.intrigues[intrigueId]
       IN IF found.phase # "setup" THEN [s |-> s, ok |-> TRUE]
          ELSE IF ~Truthy(found.initiator) THEN [s |-> s, ok |-> TRUE]
          ELSE IF Len(found.domains) < 2 THEN [s |-> s, ok |-> TRUE]
          ELSE [s |-> saveIntrigue(s, intrigueId,
                        [found EXCEPT
                           !.phase = "active",
                           !.turnOrder = IF Len(found.turnOrder) = 0
                                         THEN <<found.initiator>>
                                                \o filterOut(found.domains, found.initiator)
                                         ELSE found.turnOrder,
                           !.currentDomainIndex = 0,
                           !.log = Append(found.log, [type |-> "intrigue_start"])]),
                ok |-> TRUE]

\* the first half of every delete: the value is deleted and the id is
\* filtered out of the index
delete(s, kind, id) ==
  LET deleted == deleteValue(s, kind, id)
  IN IF includes(deleted.index[kind], id)
     THEN [deleted EXCEPT !.index[kind] = filterOut(deleted.index[kind], id)]
     ELSE deleted

\* deleteUnit: false for a unit that is not stored; the unit is then taken
\* from the units list of every stored domain, and from nothing else
deleteUnit(s, unitId) ==
  IF unitId \notin DOMAIN s.units THEN [s |-> s, ok |-> FALSE]
  ELSE LET deleted == delete(s, "units", unitId)
       IN [s |-> [deleted EXCEPT !.domains =
                    [d \in DOMAIN deleted.domains |->
                       IF includes(deleted.domains[d].units, unitId)
                       THEN [deleted.domains[d] EXCEPT
                               !.units = filterOut(deleted.domains[d].units, unitId)]
                       ELSE deleted.domains[d]]],
           ok |-> TRUE]

\* deleteDomain: the domain is then taken from the domains of every stored
\* battle and intrigue, and an intrigue it initiated loses its initiator
deleteDomain(s, domainId) ==
  IF domainId \notin DOMAIN s.domains THEN [s |-> s, ok |-> FALSE]
  ELSE LET deleted == delete(s, "domains", domainId)
       IN [s |-> [deleted EXCEPT
                    !.battles =
                      [b \in DOMAIN deleted.battles |->
                         [deleted.battles[b] EXCEPT
                            !.domains = filterOut(deleted.battles[b].domains, domainId)]],
                    !.intrigues =
                      [i \in DOMAIN deleted.intrigues |->
                         [deleted.intrigues[i] EXCEPT
                            !.domains = filterOut(deleted.intrigues[i].domains, domainId),
                            !.initiator = IF deleted.intrigues[i].initiator = domainId
                                          THEN Null
                                          ELSE deleted.intrigues[i].initiator]]],
           ok |-> TRUE]

deleteBattle(s, battleId) ==
  IF battleId \notin DOMAIN s.battles THEN [s |-> s, ok |-> FALSE]
  ELSE [s |-> delete(s, "battles", battleId), ok |-> TRUE]

deleteIntrigue(s, intrigueId) ==
  IF intrigueId \notin DOMAIN s.intrigues THEN [s |-> s, ok |-> FALSE]
  ELSE [s |-> delete(s, "intrigues", intrigueId), ok |-> TRUE]

(***************************************************************************)
(* The state machine: one battle, handed from call to call as the command  *)
(* handlers do (load, apply one transition, save the returned value).      *)
(* `last` records the call that produced the current state, with `kept`    *)
(* telling whether the value the caller passed still reads as it did       *)
(* before the call; `run` counts the endTurn calls made in a row since     *)
(* currentTurn was last 0. One intrigue and one unit are handed on in the  *)
(* same way, with `ilast` and `ulast` recording their last call; so are    *)
(* one domain (`dlast`), the store (`slast`) and one dice notation, whose  *)
(* last roll `roll` holds.                                                 *)
(***************************************************************************)
\* the initiative orders a caller can pass: every sequence without repetition
\* of ids of S (the handler collects the ids from distinct grid slots)
Orders(S) ==
  UNION {{o \in [1..k -> S] : \A i, j \in 1..k : o[i] = o[j] => i = j} :
           k \in 0..Cardinality(S)}

NoRun == [active |-> FALSE, n |-> 0, round0 |-> 0]

RECURSIVE tokenCount(_, _)
tokenCount(units, ids) ==
  IF ids = {} THEN 0
  ELSE LET u == CHOOSE x \in ids : TRUE
       IN Len(units[u].tokens) + tokenCount(units, ids \ {u})

\* the exploration stops where a counter or list passes its bound
Bounded(b) ==
  /\ Len(b.log) <= MaxLog
  /\ b.round <= MaxRound
  /\ tokenCount(b.units, DOMAIN b.units) <= MaxTokens
  /\ Cardinality({i \in 1..Len(b.log) : b.log[i].type \in Events}) <= MaxNotes

\* the exploration stops where the turns pass their bound
IntrigueBounded(i) == Len(i.turns) <= MaxTurns

\* no call of takeCasualties came before
NoCall == [op |-> "none", casualties |-> 0, current |-> 0]

InitBattle ==
  /\ battle = createBattle
  /\ last = [op |-> "createBattle", same |-> FALSE, threw |-> FALSE, kept |-> TRUE]
  /\ run = NoRun

InitIntrigue ==
  /\ intrigue = createIntrigue
  /\ ilast = [op |-> "createIntrigue", same |-> FALSE, kept |-> TRUE, domainId |-> Null]

\* the unit as createUnit returned it
Created(u) ==
  /\ unit = u
  /\ ulast = [op |-> "createUnit", casualties |-> 0, current |-> u.casualtyDie.current,
              broken |-> FALSE, prior |-> NoCall]

\* nothing is stored; `slast` is the last storage call, the id it named and,
\* for a delete, what it returned
InitStore ==
  /\ store = memoryStorage
  /\ slast = [op |-> "none", id |-> Null, ok |-> FALSE]
  /\ env = [cloudflare |-> FALSE]
  /\ indexKey = [kind \in Kinds |-> FALSE]
  /\ inflight = [p \in Commands |-> NotCalled]

InitDice == roll = NotRolled(<<"2", "d", "2">>)

\* the domain as createDomain returned it; `key` is the skill an updateSkills
\* call changes
CreatedDomain(d) ==
  /\ domain = d
  /\ dlast = [op |-> "createDomain", key |-> Null]

Init ==
  /\ InitBattle
  /\ InitIntrigue
  /\ Created(createUnit(UNIT_TIERS.I, UNIT_TYPES.INFANTRY))
  /\ CreatedDomain(createDomain(DefaultSkills))
  /\ InitStore
  /\ InitDice

\* a unit of any tier and type
InitUnit ==
  /\ InitBattle
  /\ InitIntrigue
  /\ \E tier \in UnitTiers, type \in UnitTypes : Created(createUnit(tier, type))
  /\ CreatedDomain(createDomain(DefaultSkills))
  /\ InitStore
  /\ InitDice

\* a domain created with any supplied skills object
InitDomain ==
  /\ InitBattle
  /\ InitIntrigue
  /\ Created(createUnit(UNIT_TIERS.I, UNIT_TYPES.INFANTRY))
  /\ \E skills \in SuppliedSkills : CreatedDomain(createDomain(skills))
  /\ InitStore
  /\ InitDice

\* any notation
InitNotation ==
  /\ InitBattle
  /\ InitIntrigue
  /\ Created(createUnit(UNIT_TIERS.I, UNIT_TYPES.INFANTRY))
  /\ CreatedDomain(createDomain(DefaultSkills))
  /\ InitStore
  /\ \E notation \in Notations : roll = NotRolled(notation)

\* two commands are about to save; the storage is the memory of the process
\* or a KV namespace, and holds nothing or one entity of each kind, with
\* its index
InitSaves ==
  /\ InitBattle
  /\ InitIntrigue
  /\ Created(createUnit(UNIT_TIERS.I, UNIT_TYPES.INFANTRY))
  /\ CreatedDomain(createDomain(DefaultSkills))
  /\ InitDice
  /\ slast = [op |-> "none", id |-> Null, ok |-> FALSE]
  /\ \E cloudflare \in BOOLEAN : env = [cloudflare |-> cloudflare]
  /\ inflight = [p \in Commands |-> NotCalled]
  /\ \/ /\ store = memoryStorage
        /\ indexKey = [kind \in Kinds |-> FALSE]
     \/ /\ store = saveIntrigue(saveBattle(memoryStorage, "b1", createBattle),
                                   "i1", createIntrigue)
        /\ indexKey = [kind \in Kinds |-> kind \in SavedKinds]

Do(op, res, r) ==
  /\ Bounded(res.b)
  /\ battle' = IF res.threw THEN battle ELSE res.b
  /\ last' = [op |-> op, same |-> res.same, threw |-> res.threw,
              kept |-> callerValue(inPlace(op), battle, res) = battle]
  /\ run' = r
  /\ UNCHANGED <<intrigueVars, unitVars, domainVars, storeVars, diceVars>>

\* one call on the intrigue; domainId is the domain a takeTurn call names
IntrigueDo(op, res, domainId) ==
  /\ IntrigueBounded(res.b)
  /\ intrigue' = res.b
  /\ ilast' = [op |-> op, same |-> res.same,
               kept |-> callerValue(intrigueInPlace(op), intrigue, res) = intrigue,
               domainId |-> domainId]
  /\ UNCHANGED <<battleVars, unitVars, domainVars, storeVars, diceVars>>

\* one call on the unit; `prior` keeps the takeCasualties call that came
\* immediately before
UnitDo(op, casualties, u) ==
  /\ unit' = u
  /\ ulast' = [op |-> op, casualties |-> casualties,
               current |-> unit.casualtyDie.current,
               broken |-> includes(unit.conditions, UNIT_CONDITIONS.BROKEN),
               prior |-> IF ulast.op = "takeCasualties"
                         THEN [op |-> ulast.op, casualties |-> ulast.casualties,
                               current |-> ulast.current]
                         ELSE NoCall]
  /\ UNCHANGED <<battleVars, intrigueVars, domainVars, storeVars, diceVars>>

\* one storage call
StoreDo(op, id, res) ==
  /\ store' = res.s
  /\ slast' = [op |-> op, id |-> id, ok |-> res.ok]
  /\ UNCHANGED <<env, indexKey, inflight>>
  /\ UNCHANGED <<battleVars, intrigueVars, unitVars, domainVars, diceVars>>

\* one call on the domain
DomainDo(op, key, d) ==
  /\ d.resources \in Amounts
  /\ domain' = d
  /\ dlast' = [op |-> op, key |-> key]
  /\ UNCHANGED <<battleVars, intrigueVars, unitVars, storeVars, diceVars>>

AddDomain == \E d \in DomainIds : Do("addDomain", addDomain(battle, d), NoRun)

RemoveDomain == \E d \in DomainIds : Do("removeDomain", removeDomain(battle, d), NoRun)

\* addUnit with the unit's own domain
AddUnit == \E u \in UnitIds : Do("addUnit", addUnit(battle, u, DomainOf[u]), NoRun)

\* addUnit for the first unit only: the other id then stays unknown to the
\* battle, and every call that names it takes the unknown-unit path
AddFirstUnit == Do("addUnit", addUnit(battle, "u1", DomainOf["u1"]), NoRun)

\* addUnit with any domain
AddUnitAny == \E u \in UnitIds, d \in DomainIds : Do("addUnit", addUnit(battle, u, d), NoRun)

RemoveUnit == \E u \in UnitIds : Do("removeUnit", removeUnit(battle, u), NoRun)

DeployUnit ==
  \E u \in UnitIds, rc \in DeployArgs :
    Do("deployUnit", deployUnit(battle, u, rc[1], rc[2]), NoRun)

DeployUnitAny ==
  \E u \in UnitIds, rank \in AnyRank, column \in AnyColumn :
    Do("deployUnit", deployUnit(battle, u, rank, column), NoRun)

SetInitiative ==
  \E initiative \in Orders(UnitIds) :
    Do("setInitiative", setInitiative(battle, initiative), NoRun)

\* setInitiative with orders of the first unit only
SetFirstInitiative ==
  \E initiative \in Orders({"u1"}) :
    Do("setInitiative", setInitiative(battle, initiative), NoRun)

StartBattle == Do("startBattle", startBattle(battle), NoRun)

EndBattle ==
  \E w \in Winners : Do("endBattle", endBattle(battle, w), NoRun)

ActivateUnit == \E u \in UnitIds : Do("activateUnit", activateUnit(battle, u), NoRun)

EndTurn ==
  Do("endTurn", endTurn(battle),
     IF battle.phase = BATTLE_PHASES.BATTLE /\ Len(battle.initiative) >= 1
        /\ battle.currentTurn = 0
     THEN [active |-> TRUE, n |-> 1, round0 |-> battle.round]
     ELSE IF run.active THEN [run EXCEPT !.n = run.n + 1]
     ELSE NoRun)

AddToken == \E u \in UnitIds, t \in Tokens : Do("addToken", addToken(battle, u, t), NoRun)

RemoveToken == \E u \in UnitIds, t \in Tokens : Do("removeToken", removeToken(battle, u, t), NoRun)

LogEvent == \E e \in Events : Do("logEvent", logEvent(battle, e), NoRun)

\* every transition of the battle engine
Next ==
  \/ AddDomain
  \/ RemoveDomain
  \/ AddFirstUnit
  \/ RemoveUnit
  \/ DeployUnit
  \/ SetFirstInitiative
  \/ StartBattle
  \/ EndBattle
  \/ ActivateUnit
  \/ EndTurn
  \/ AddToken
  \/ RemoveToken
  \/ LogEvent

Spec == Init /\ [][Next]_vars

\* membership and deployment only, with every argument value
NextGrid ==
  \/ AddDomain
  \/ RemoveDomain
  \/ AddUnitAny
  \/ RemoveUnit
  \/ DeployUnitAny

SpecGrid == Init /\ [][NextGrid]_vars

\* membership, initiative and the turn sequence
NextTurns ==
  \/ AddUnit
  \/ RemoveUnit
  \/ SetInitiative
  \/ StartBattle
  \/ EndBattle
  \/ ActivateUnit
  \/ EndTurn

SpecTurns == Init /\ [][NextTurns]_vars

\* units of both domains come, are placed and ordered, and leave again, one
\* by one or with their domain
NextRemoval ==
  \/ AddDomain
  \/ RemoveDomain
  \/ AddUnitAny
  \/ RemoveUnit
  \/ DeployUnit
  \/ SetInitiative

SpecRemoval == Init /\ [][NextRemoval]_vars

\* the calls that move the phase, the turn and the round, and those that
\* change the initiative or write the log in between
NextRounds ==
  \/ AddUnit
  \/ RemoveUnit
  \/ SetInitiative
  \/ StartBattle
  \/ EndBattle
  \/ EndTurn
  \/ LogEvent

SpecRounds == Init /\ [][NextRounds]_vars

IntrigueAddDomain ==
  \E d \in IntrigueDomainIds : IntrigueDo("addDomain", intrigueAddDomain(intrigue, d), Null)

IntrigueRemoveDomain ==
  \E d \in IntrigueDomainIds :
    IntrigueDo("removeDomain", intrigueRemoveDomain(intrigue, d), Null)

SetInitiator ==
  \E d \in IntrigueDomainIds : IntrigueDo("setInitiator", setInitiator(intrigue, d), Null)

SetTurnOrder ==
  \E turnOrder \in TurnOrders :
    IntrigueDo("setTurnOrder", setTurnOrder(intrigue, turnOrder), Null)

StartIntrigue == IntrigueDo("startIntrigue", startIntrigue(intrigue), Null)

EndIntrigue == IntrigueDo("endIntrigue", endIntrigue(intrigue), Null)

TakeTurn ==
  \E d \in IntrigueDomainIds, action \in IntrigueActions :
    IntrigueDo("takeTurn", takeTurn(intrigue, d, action), d)

\* every transition of the intrigue engine
NextIntrigue ==
  \/ IntrigueAddDomain
  \/ IntrigueRemoveDomain
  \/ SetInitiator
  \/ SetTurnOrder
  \/ StartIntrigue
  \/ EndIntrigue
  \/ TakeTurn

SpecIntrigue == Init /\ [][NextIntrigue]_vars

\* removeDomain and setTurnOrder on an intrigue that is not active
RemoveDomainWhileIdle ==
  /\ intrigue.phase # INTRIGUE_PHASES.ACTIVE
  /\ IntrigueRemoveDomain

SetTurnOrderWhileIdle ==
  /\ intrigue.phase # INTRIGUE_PHASES.ACTIVE
  /\ SetTurnOrder

\* the intrigue engine with a turn order that nothing touches while the
\* intrigue is active
NextCycle ==
  \/ IntrigueAddDomain
  \/ RemoveDomainWhileIdle
  \/ SetInitiator
  \/ SetTurnOrderWhileIdle
  \/ StartIntrigue
  \/ EndIntrigue
  \/ TakeTurn

SpecCycle == Init /\ [][NextCycle]_vars

\* logEvent on the intrigue, as often as MaxNotes allows
IntrigueLogEvent ==
  /\ Cardinality({k \in 1..Len(intrigue.log) : intrigue.log[k].type \in Events}) < MaxNotes
  /\ \E e \in Events : IntrigueDo("logEvent", intrigueLogEvent(intrigue, e), Null)

\* a battle and an intrigue share no state: a behaviour works on the one
\* while the other is as it was created
OnlyBattle == ilast.op = "createIntrigue"
OnlyIntrigue == last.op = "createBattle"

\* every transition that writes a log or the turns, on the battle or on the
\* intrigue
NextLogs ==
  \/ OnlyBattle /\ AddFirstUnit
  \/ OnlyBattle /\ SetFirstInitiative
  \/ OnlyBattle /\ StartBattle
  \/ OnlyBattle /\ EndBattle
  \/ OnlyBattle /\ ActivateUnit
  \/ OnlyBattle /\ EndTurn
  \/ OnlyBattle /\ LogEvent
  \/ OnlyIntrigue /\ IntrigueAddDomain
  \/ OnlyIntrigue /\ SetInitiator
  \/ OnlyIntrigue /\ StartIntrigue
  \/ OnlyIntrigue /\ EndIntrigue
  \/ OnlyIntrigue /\ TakeTurn
  \/ OnlyIntrigue /\ IntrigueLogEvent

SpecLogs == Init /\ [][NextLogs]_vars

AddCondition ==
  \E c \in Conditions : UnitDo("addCondition", 0, addCondition(unit, c))

RemoveCondition ==
  \E c \in Conditions : UnitDo("removeCondition", 0, removeCondition(unit, c))

TakeCasualties ==
  \E n \in 0..MaxCasualties : UnitDo("takeCasualties", n, takeCasualties(unit, n))

RallyCasualties ==
  \E n \in 0..MaxCasualties : UnitDo("rallyCasualties", n, rallyCasualties(unit, n))

\* the casualty die and the conditions of a unit
NextUnit ==
  \/ AddCondition
  \/ RemoveCondition
  \/ TakeCasualties
  \/ RallyCasualties

SpecUnit == InitUnit /\ [][NextUnit]_vars

UpdateSkills ==
  \E skills \in SkillChanges :
    DomainDo("updateSkills",
             IF DOMAIN skills = {} THEN Null ELSE CHOOSE k \in DOMAIN skills : TRUE,
             updateSkills(domain, skills))

AddResources ==
  \E amount \in Amounts : DomainDo("addResources", Null, addResources(domain, amount))

RemoveResources ==
  \E amount \in Amounts : DomainDo("removeResources", Null, removeResources(domain, amount))

\* the skills and the resources of a domain
NextDomain ==
  \/ UpdateSkills
  \/ AddResources
  \/ RemoveResources

SpecDomain == InitDomain /\ [][NextDomain]_vars

\* rollFromNotation on the notation at hand, with any outcome of the dice;
\* the exploration leaves out the rolls of more than MaxDice dice or of dice
\* with more than MaxSides sides
RollFromNotation ==
  LET m == match(roll.notation)
  IN /\ m.found => diceOf(m).count <= MaxDice /\ diceOf(m).sides <= MaxSides
     /\ \E rolls \in (IF m.found THEN rollDice(diceOf(m).count, diceOf(m).sides)
                       ELSE {<<>>}) :
          roll' = rollFromNotation(roll.notation, m, rolls)
     /\ UNCHANGED <<battleVars, intrigueVars, unitVars, domainVars, storeVars>>

NextDice == RollFromNotation

SpecDice == InitNotation /\ [][NextDice]_vars

SaveUnit ==
  \E id \in UnitIds, value \in StoredUnits :
    StoreDo("saveUnit", id, [s |-> saveUnit(store, id, value), ok |-> TRUE])

DeleteUnit == \E id \in UnitIds : StoreDo("deleteUnit", id, deleteUnit(store, id))

SaveDomain ==
  \E id \in DomainIds, value \in StoredDomains :
    StoreDo("saveDomain", id, [s |-> saveDomain(store, id, value), ok |-> TRUE])

DeleteDomain == \E id \in DomainIds : StoreDo("deleteDomain", id, deleteDomain(store, id))

SaveBattle ==
  \E id \in BattleIds, value \in StoredBattles :
    StoreDo("saveBattle", id, [s |-> saveBattle(store, id, value), ok |-> TRUE])

DeleteBattle == \E id \in BattleIds : StoreDo("deleteBattle", id, deleteBattle(store, id))

SaveIntrigue ==
  \E id \in IntrigueIds, value \in StoredIntrigues :
    StoreDo("saveIntrigue", id, [s |-> saveIntrigue(store, id, value), ok |-> TRUE])

DeleteIntrigue ==
  \E id \in IntrigueIds : StoreDo("deleteIntrigue", id, deleteIntrigue(store, id))

\* saveBattle and saveIntrigue, a stretch between two awaits at a time.
\* The call runs up to its first await: the value is put.
SavePut(c) ==
  /\ inflight[c].at = "start"
  /\ \E kind \in SavedKinds :
       \E id \in SavedIds[kind] \ {inflight[o].id : o \in Commands \ {c}},
          value \in SavedValues[kind] :
         /\ store' = putValue(store, kind, id, value)
         /\ inflight' = [inflight EXCEPT ![c] =
                           [NotCalled EXCEPT !.at = "put", !.kind = kind, !.id = id]]
  /\ UNCHANGED <<battleVars, intrigueVars, unitVars, domainVars, diceVars,
                 slast, env, indexKey>>

\* resumed after the put: the index is read
SaveGetIndex(c) ==
  /\ inflight[c].at = "put"
  /\ LET got == getIndex(store, env, indexKey, inflight[c].kind)
     IN inflight' = [inflight EXCEPT ![c] =
                       [@ EXCEPT !.at = "got", !.shared = got.shared,
                                 !.battleIndex = got.battleIndex]]
  /\ UNCHANGED <<battleVars, intrigueVars, unitVars, domainVars, diceVars,
                 store, slast, env, indexKey>>

\* resumed after the read: the id is pushed and the index is put, unless the
\* array that was read holds the id. In the memory of the process the array
\* that is put becomes the stored one, and a command that still holds the
\* array stored before holds it alone from now on.
SavePutIndex(c) ==
  /\ inflight[c].at = "got"
  /\ store' = putIndex(store, inflight[c])
  /\ LET pushed == ~includes(held(store, inflight[c]), inflight[c].id)
         kind == inflight[c].kind
     IN /\ indexKey' = IF pushed THEN [indexKey EXCEPT ![kind] = TRUE] ELSE indexKey
        /\ inflight' =
             [o \in Commands |->
                IF o = c
                THEN [inflight[c] EXCEPT
                        !.at = "done",
                        !.shared = IF pushed THEN ~env.cloudflare ELSE @,
                        !.battleIndex = IF pushed /\ env.cloudflare
                                        THEN store'.index[kind]
                                        ELSE IF pushed THEN <<>> ELSE @]
                ELSE IF pushed /\ ~inflight[c].shared /\ inflight[o].shared
                        /\ inflight[o].kind = kind
                THEN [inflight[o] EXCEPT !.shared = FALSE,
                                         !.battleIndex = store.index[kind]]
                ELSE inflight[o]]
  /\ UNCHANGED <<battleVars, intrigueVars, unitVars, domainVars, diceVars, slast, env>>

NextSaves ==
  \/ \E c \in Commands : SavePut(c)
  \/ \E c \in Commands : SaveGetIndex(c)
  \/ \E c \in Commands : SavePutIndex(c)

SpecSaves == InitSaves /\ [][NextSaves]_vars

\* a unit that removeDomainFromBattle left in the grid is listed once more
\* each time it is added again; the list is kept to MaxListed entries
AddUnitToBattle ==
  \E id \in BattleIds, unitId \in UnitIds, domainId \in DomainIds :
    LET res == addUnitToBattle(store, env, id, unitId, domainId)
    IN /\ res.ok => Len(res.s.battles[id].grid.not_deployed) <= MaxListed
       /\ StoreDo("addUnitToBattle", id, res)

RemoveUnitFromBattle ==
  \E id \in BattleIds, unitId \in UnitIds :
    StoreDo("removeUnitFromBattle", id, removeUnitFromBattle(store, id, unitId))

RemoveDomainFromBattle ==
  \E id \in BattleIds, domainId \in DomainIds :
    StoreDo("removeDomainFromBattle", id, removeDomainFromBattle(store, id, domainId))

\* battles are saved and changed through the helpers of the battle storage
NextBattleHelpers ==
  \/ SaveBattle
  \/ AddUnitToBattle
  \/ RemoveUnitFromBattle
  \/ RemoveDomainFromBattle

SpecBattleHelpers == InitSaves /\ [][NextBattleHelpers]_vars

AddDomainToIntrigue ==
  \E id \in IntrigueIds, domainId \in DomainIds :
    StoreDo("addDomainToIntrigue", id, addDomainToIntrigue(store, id, domainId))

RemoveDomainFromIntrigue ==
  \E id \in IntrigueIds, domainId \in DomainIds :
    StoreDo("removeDomainFromIntrigue", id, removeDomainFromIntrigue(store, id, domainId))

SetIntrigueInitiator ==
  \E id \in IntrigueIds, domainId \in DomainIds :
    StoreDo("setIntrigueInitiator", id, setIntrigueInitiator(store, id, domainId))

AddIntrigueTurn ==
  \E id \in IntrigueIds, domainId \in DomainIds, action \in IntrigueActions :
    LET res == addIntrigueTurn(store, id, domainId, action)
    IN /\ res.ok => IntrigueBounded(res.s.intrigues[id])
       /\ StoreDo("addIntrigueTurn", id, res)

StartStoredIntrigue ==
  \E id \in IntrigueIds : StoreDo("startIntrigue", id, startStoredIntrigue(store, id))

\* saveDomain of a domain as createDomain returned it
SaveNewDomain ==
  \E id \in DomainIds :
    StoreDo("saveDomain", id,
            [s |-> saveDomain(store, id, createDomain(DefaultSkills)), ok |-> TRUE])

\* intrigues are saved and changed through the helpers of the intrigue
\* storage, and domains are saved and deleted
NextIntrigueHelpers ==
  \/ SaveIntrigue
  \/ AddDomainToIntrigue
  \/ RemoveDomainFromIntrigue
  \/ SetIntrigueInitiator
  \/ StartStoredIntrigue
  \/ AddIntrigueTurn
  \/ SaveNewDomain
  \/ DeleteDomain

SpecIntrigueHelpers == InitSaves /\ [][NextIntrigueHelpers]_vars

\* the save and delete calls of the four kinds, one at a time
NextStore ==
  \/ SaveUnit
  \/ DeleteUnit
  \/ SaveDomain
  \/ DeleteDomain
  \/ SaveBattle
  \/ DeleteBattle
  \/ SaveIntrigue
  \/ DeleteIntrigue

SpecStore == Init /\ [][NextStore]_vars

(***************************************************************************)
(* Deployment grid                                                         *)
(***************************************************************************)
\* how often unitId occurs in a list
occurrences(seq, unitId) == Cardinality({i \in 1..Len(seq) : seq[i] = unitId})

\* the structured cells <<rank, column>> that hold unitId
cellsOf(b, unitId) ==
  {rc \in StructuredRanks \X Columns : b.grid[rc[1]][rc[2]] = unitId}

\* the number of grid locations that hold unitId
locations(b, unitId) ==
  Cardinality(cellsOf(b, unitId))
    + occurrences(b.grid.reserve, unitId) + occurrences(b.grid.not_deployed, unitId)

\* the grid location holding unitId is the one its position records
atPosition(b, unitId) ==
  LET position == b.units[unitId].position
  IN IF position.rank \in ListRanks
     THEN position.column = Null /\ includes(b.grid[position.rank], unitId)
     ELSE <<position.rank, position.column>> \in cellsOf(b, unitId)

\* every id a grid location holds
gridIds(b) ==
  {b.grid[rc[1]][rc[2]] : rc \in StructuredRanks \X Columns}
    \cup {b.grid.reserve[i] : i \in 1..Len(b.grid.reserve)}
    \cup {b.grid.not_deployed[i] : i \in 1..Len(b.grid.not_deployed)}

\* C1: in every battle reached by addDomain, addUnit, removeUnit, removeDomain
\* and deployUnit, each unit of `units` is in exactly one grid location, the
\* one its position records, and the grid holds no id that is not in `units`
C1_GridExclusive ==
  /\ \A u \in DOMAIN battle.units : locations(battle, u) = 1 /\ atPosition(battle, u)
  /\ gridIds(battle) \subseteq (DOMAIN battle.units) \cup {Null}

\* C2: deployUnit of a unit of the battle to an empty cell of a structured
\* rank and recognised column puts the unit in that cell, records the cell
\* as its position and leaves the unit in no other location
C2_DeployPlaces ==
  \A u \in DOMAIN battle.units, rank \in StructuredRanks, column \in Columns :
    battle.grid[rank][column] = Null =>
      LET res == deployUnit(battle, u, rank, column)
      IN /\ ~res.threw
         /\ res.b.grid[rank][column] = u
         /\ res.b.units[u].position = [rank |-> rank, column |-> column]
         /\ locations(res.b, u) = 1

\* the rejections C3 lists: unit absent, column missing or unrecognised for a
\* structured rank, target cell occupied
rejected(b, u, rank, column) ==
  \/ u \notin DOMAIN b.units
  \/ rank \in StructuredRanks /\ column \notin Columns
  \/ rank \in StructuredRanks /\ column \in Columns /\ b.grid[rank][column] # Null

\* the first half of C3: a rejected deployUnit returns its argument
DeployRejectsUnchanged ==
  \A u \in UnitIds, rank \in AnyRank, column \in AnyColumn :
    rejected(battle, u, rank, column) =>
      deployUnit(battle, u, rank, column) = Same(battle)

\* C3: a rejected deployUnit returns the battle unchanged, and deploying u2
\* to the cell u1 was just deployed to leaves u1 in the cell and u2 in
\* not_deployed
C3_DeployRejects ==
  /\ DeployRejectsUnchanged
  /\ \A u1, u2 \in DOMAIN battle.units :
       (/\ u1 # u2
        /\ battle.grid.vanguard.left = Null
        /\ includes(battle.grid.not_deployed, u2)) =>
         LET b1 == deployUnit(battle, u1, "vanguard", "left").b
             b2 == deployUnit(b1, u2, "vanguard", "left").b
         IN b2.grid.vanguard.left = u1 /\ includes(b2.grid.not_deployed, u2)

(***************************************************************************)
(* Failure policy and phases                                               *)
(***************************************************************************)
\* C4: no battle transition throws
C4_NeverThrows == ~last.threw

\* C5: the phase only moves setup -> battle -> aftermath, aftermath is
\* terminal, and no transition enters deployment
C5_PhaseForward ==
  [][/\ battle.phase = BATTLE_PHASES.SETUP =>
          battle'.phase \in {BATTLE_PHASES.SETUP, BATTLE_PHASES.BATTLE}
     /\ battle.phase = BATTLE_PHASES.BATTLE =>
          battle'.phase \in {BATTLE_PHASES.BATTLE, BATTLE_PHASES.AFTERMATH}
     /\ battle.phase = BATTLE_PHASES.AFTERMATH => battle'.phase = BATTLE_PHASES.AFTERMATH
     /\ battle'.phase # BATTLE_PHASES.DEPLOYMENT]_vars

\* startBattle was called on a battle that had ended, and the battle is
\* still in aftermath
C5_Witness ==
  /\ last.op = "startBattle"
  /\ battle.phase = BATTLE_PHASES.AFTERMATH
  /\ battle.log[Len(battle.log)].type = "battle_end"

(***************************************************************************)
(* Turn sequence                                                           *)
(***************************************************************************)
\* the call that led to the current state returned its argument
unchanged == battle' = battle /\ last'.same /\ ~last'.threw

\* C6: endTurn in phase battle with a non-empty initiative deactivates the
\* departing unit and sets currentTurn to (currentTurn + 1) mod
\* initiative.length; exactly when that is 0 it adds 1 to round, clears
\* every usedReaction and appends round_end (old round) then round_start
\* (new round); otherwise round and log stay; outside phase battle the
\* battle is returned unchanged
C6_EndTurn ==
  [][last'.op = "endTurn" =>
       IF battle.phase # BATTLE_PHASES.BATTLE THEN unchanged
       ELSE Len(battle.initiative) > 0 =>
         LET departing == At(battle.initiative, battle.currentTurn)
             next == IF battle.currentTurn = NaN THEN NaN
                     ELSE (battle.currentTurn + 1) % Len(battle.initiative)
         IN /\ ~last'.threw
            /\ battle'.currentTurn = next
            /\ DOMAIN battle'.units = DOMAIN battle.units
            /\ departing \in DOMAIN battle.units => ~battle'.units[departing].activated
            /\ IF next = 0
               THEN /\ battle'.round = battle.round + 1
                    /\ \A u \in DOMAIN battle'.units : ~battle'.units[u].usedReaction
                    /\ battle'.log = battle.log \o
                         << [type |-> "round_end", round |-> battle.round],
                            [type |-> "round_start", round |-> battle'.round] >>
               ELSE /\ battle'.round = battle.round
                    /\ battle'.log = battle.log]_vars

\* endTurn ended the turn of an activated unit and wrapped into round 2
C6_Witness ==
  /\ last.op = "endTurn"
  /\ Len(battle.initiative) = 2
  /\ battle.currentTurn = 0
  /\ battle.round = 2
  /\ Len(battle.log) >= 3
  /\ battle.log[Len(battle.log) - 2].type = "unit_activated"
  /\ battle.log[Len(battle.log)] = [type |-> "round_start", round |-> 2]

\* C7: from phase battle, an initiative of length L >= 1 and currentTurn 0,
\* L endTurn calls in a row bring currentTurn back to 0, add exactly 1 to
\* round and leave every usedReaction false
C7_FullRound ==
  (run.active /\ run.n = Len(battle.initiative)) =>
    /\ battle.currentTurn = 0
    /\ battle.round = run.round0 + 1
    /\ \A u \in DOMAIN battle.units : ~battle.units[u].usedReaction

\* two endTurn calls in a row completed a round of a two-unit initiative
C7_Witness ==
  /\ run.active
  /\ run.n = 2
  /\ Len(battle.initiative) = 2
  /\ last.op = "endTurn"
  /\ battle.round = run.round0 + 1

\* C8: activateUnit changes the battle only in phase battle, for a unit of
\* the battle that is initiative[currentTurn]; it then sets activated on
\* that unit only and appends one unit_activated entry naming it; in every
\* other case it returns the battle unchanged
C8_ActivateInTurn ==
  [][last'.op = "activateUnit" =>
       \/ unchanged
       \/ /\ battle.phase = BATTLE_PHASES.BATTLE
          /\ ~last'.same /\ ~last'.threw
          /\ LET u == At(battle.initiative, battle.currentTurn)
             IN /\ u \in DOMAIN battle.units
                /\ battle' = [battle EXCEPT
                     !.units[u].activated = TRUE,
                     !.log = Append(battle.log, [type |-> "unit_activated", unitId |-> u])]]_vars

\* the unit whose turn it is was activated while another unit of the battle
\* stayed inactive
C8_Witness ==
  /\ last.op = "activateUnit"
  /\ ~last.same
  /\ Cardinality(DOMAIN battle.units) = 2
  /\ \E u \in DOMAIN battle.units :
       /\ At(battle.initiative, battle.currentTurn) = u
       /\ battle.units[u].activated
       /\ \A v \in (DOMAIN battle.units) \ {u} : ~battle.units[v].activated

\* C9: startBattle changes a battle only in phase setup, and then sets
\* phase battle and round 1 and appends exactly one battle_start entry; in
\* phase battle or aftermath it returns the battle unchanged
C9_StartBattle ==
  [][last'.op = "startBattle" =>
       IF battle.phase = BATTLE_PHASES.SETUP
       THEN /\ ~last'.same /\ ~last'.threw
            /\ battle' = [battle EXCEPT
                 !.phase = BATTLE_PHASES.BATTLE,
                 !.round = 1,
                 !.log = Append(battle.log, [type |-> "battle_start", round |-> 1])]
       ELSE unchanged]_vars

\* startBattle was called again in round 2 and changed nothing
C9_Witness ==
  /\ last.op = "startBattle"
  /\ last.same
  /\ battle.phase = BATTLE_PHASES.BATTLE
  /\ battle.round = 2
  /\ Cardinality({i \in 1..Len(battle.log) : battle.log[i].type = "battle_start"}) = 1

C11_CallerUnchanged == last.kept /\ ilast.kept

(***************************************************************************)
(* Intrigue                                                                *)
(***************************************************************************)
\* the call that led to the current intrigue returned its argument
intrigueUnchanged == intrigue' = intrigue /\ ilast'.same

\* C12: startIntrigue makes the intrigue active exactly when it is in setup,
\* has an initiator and has at least two domains, and returns it unchanged
\* otherwise; an intrigue leaves setup only through such a call
C12_StartIntrigue ==
  [][/\ ilast'.op = "startIntrigue" =>
          IF /\ intrigue.phase = INTRIGUE_PHASES.SETUP
             /\ intrigue.initiator # Null
             /\ Len(intrigue.domains) >= 2
          THEN intrigue'.phase = INTRIGUE_PHASES.ACTIVE /\ ~ilast'.same
          ELSE intrigueUnchanged
     /\ (intrigue.phase = INTRIGUE_PHASES.SETUP /\ intrigue'.phase # INTRIGUE_PHASES.SETUP) =>
          /\ ilast'.op = "startIntrigue"
          /\ intrigue.initiator \in IntrigueDomainIds
          /\ Len(intrigue.domains) >= 2]_vars

\* an intrigue of exactly two domains was started
C12_Witness ==
  /\ ilast.op = "startIntrigue"
  /\ ~ilast.same
  /\ intrigue.phase = INTRIGUE_PHASES.ACTIVE
  /\ Len(intrigue.domains) = 2
  /\ intrigue.initiator # Null

\* the place of a domain in a list that holds it
indexOf(seq, x) == CHOOSE k \in 1..Len(seq) : seq[k] = x

\* C13: when startIntrigue succeeds on an empty turnOrder, the turn order is
\* the initiator followed by the other domains in the order they were
\* added, every member exactly once
C13_TurnOrder ==
  [][(ilast'.op = "startIntrigue" /\ ~ilast'.same /\ intrigue.turnOrder = <<>>) =>
       LET t == intrigue'.turnOrder
           domains == intrigue.domains
       IN /\ Len(t) = Len(domains)
          /\ t[1] = intrigue.initiator
          /\ \A k \in 1..Len(domains) : occurrences(t, domains[k]) = 1
          /\ \A x, y \in 2..Len(t) :
               x < y => indexOf(domains, t[x]) < indexOf(domains, t[y])]_vars

\* the example of the claim: initiator D1, domains added as D2, D1, D3
C13_Witness ==
  /\ ilast.op = "startIntrigue"
  /\ ~ilast.same
  /\ intrigue.initiator = "D1"
  /\ intrigue.domains = <<"D2", "D1", "D3">>
  /\ intrigue.turnOrder = <<"D1", "D2", "D3">>

\* C14: takeTurn changes the intrigue only in phase active, for a member
\* domain that is turnOrder[currentDomainIndex]; it then appends one record
\* to turns and one turn_taken entry to log and moves currentDomainIndex to
\* (currentDomainIndex + 1) mod turnOrder.length; in every other case it
\* returns the intrigue unchanged
C14_TakeTurn ==
  [][ilast'.op = "takeTurn" =>
       LET d == ilast'.domainId
       IN IF /\ intrigue.phase = INTRIGUE_PHASES.ACTIVE
             /\ includes(intrigue.domains, d)
             /\ At(intrigue.turnOrder, intrigue.currentDomainIndex) = d
          THEN /\ ~ilast'.same
               /\ \E a \in IntrigueActions :
                    intrigue' = [intrigue EXCEPT
                      !.turns = Append(intrigue.turns, [domainId |-> d, action |-> a]),
                      !.log = Append(intrigue.log,
                                [type |-> "turn_taken", domainId |-> d, action |-> a]),
                      !.currentDomainIndex =
                         (intrigue.currentDomainIndex + 1) % Len(intrigue.turnOrder)]
          ELSE intrigueUnchanged]_vars

\* the second of two domains took its turn and the first is up again
C14_Witness ==
  /\ ilast.op = "takeTurn"
  /\ ~ilast.same
  /\ Len(intrigue.turnOrder) = 2
  /\ Len(intrigue.turns) = 2
  /\ intrigue.turns[1].domainId = intrigue.turnOrder[1]
  /\ intrigue.turns[2].domainId = intrigue.turnOrder[2]
  /\ intrigue.currentDomainIndex = 0

\* C15: when an intrigue becomes active its turnOrder starts with the
\* initiator, and once it has left setup no operation changes turnOrder
C15_TurnOrderFixed ==
  [][/\ (intrigue.phase = INTRIGUE_PHASES.SETUP /\ intrigue'.phase = INTRIGUE_PHASES.ACTIVE) =>
          At(intrigue'.turnOrder, 0) = intrigue'.initiator
     /\ intrigue.phase # INTRIGUE_PHASES.SETUP =>
          intrigue'.turnOrder = intrigue.turnOrder]_vars

\* C16: the phase only moves setup -> active -> resolution; endIntrigue
\* changes an intrigue only in phase active, setting phase resolution and
\* appending one intrigue_end entry, and nothing else ends an intrigue
C16_IntriguePhaseForward ==
  [][/\ intrigue.phase = INTRIGUE_PHASES.SETUP =>
          intrigue'.phase \in {INTRIGUE_PHASES.SETUP, INTRIGUE_PHASES.ACTIVE}
     /\ intrigue.phase = INTRIGUE_PHASES.ACTIVE =>
          intrigue'.phase \in {INTRIGUE_PHASES.ACTIVE, INTRIGUE_PHASES.RESOLUTION}
     /\ intrigue.phase = INTRIGUE_PHASES.RESOLUTION =>
          intrigue'.phase = INTRIGUE_PHASES.RESOLUTION
     /\ ilast'.op = "endIntrigue" =>
          IF intrigue.phase = INTRIGUE_PHASES.ACTIVE
          THEN /\ ~ilast'.same
               /\ intrigue' = [intrigue EXCEPT
                    !.phase = INTRIGUE_PHASES.RESOLUTION,
                    !.log = Append(intrigue.log, [type |-> "intrigue_end"])]
          ELSE intrigueUnchanged
     /\ intrigue'.phase # intrigue.phase /\ intrigue'.phase = INTRIGUE_PHASES.RESOLUTION =>
          ilast'.op = "endIntrigue"]_vars

\* endIntrigue was called on an intrigue already resolved and changed nothing
C16_Witness ==
  /\ ilast.op = "endIntrigue"
  /\ ilast.same
  /\ intrigue.phase = INTRIGUE_PHASES.RESOLUTION
  /\ intrigue.log[Len(intrigue.log)].type = "intrigue_end"
  /\ Cardinality({k \in 1..Len(intrigue.log) : intrigue.log[k].type = "intrigue_end"}) = 1

\* C17: setInitiator(intrigue, d) makes d the initiator, adding d to the
\* domains first when it is not a member and leaving them alone when it is
C17_SetInitiator ==
  \A d \in IntrigueDomainIds :
    LET res == setInitiator(intrigue, d).b
    IN /\ res.initiator = d
       /\ res.domains = IF includes(intrigue.domains, d) THEN intrigue.domains
                        ELSE Append(intrigue.domains, d)

(***************************************************************************)
(* Units of a battle                                                       *)
(***************************************************************************)
\* the unit record addUnit creates
joined(u, d) ==
  [id |-> u, domainId |-> d,
   position |-> [rank |-> "not_deployed", column |-> Null],
   activated |-> FALSE, usedReaction |-> FALSE, tokens |-> <<>>]

\* C18: addUnit(b, u, d) for a unit not in the battle appends d to domains
\* and adds no unit when d is not a member, and when d is a member adds u
\* to units, not deployed, inactive, without tokens, and appends u to
\* not_deployed; for a unit already in the battle it returns b unchanged
C18_AddUnit ==
  \A u \in UnitIds, d \in DomainIds :
    LET res == addUnit(battle, u, d)
    IN IF u \in DOMAIN battle.units THEN res.same /\ res.b = battle
       ELSE IF ~includes(battle.domains, d)
       THEN /\ res.b.domains = Append(battle.domains, d)
            /\ res.b.units = battle.units
            /\ res.b.grid = battle.grid
       ELSE /\ res.b.domains = battle.domains
            /\ DOMAIN res.b.units = (DOMAIN battle.units) \cup {u}
            /\ res.b.units[u] = joined(u, d)
            /\ \A v \in DOMAIN battle.units : res.b.units[v] = battle.units[v]
            /\ res.b.grid = [battle.grid EXCEPT
                 !.not_deployed = Append(battle.grid.not_deployed, u)]

\* addUnit was called for a domain new to the battle and added the domain
\* where a unit was to join
C18_Witness ==
  /\ last.op = "addUnit"
  /\ ~last.same
  /\ Len(battle.domains) = 2
  /\ Cardinality(DOMAIN battle.units) = 1
  /\ \A u \in DOMAIN battle.units : battle.units[u].domainId = battle.domains[1]

(***************************************************************************)
(* Casualties                                                              *)
(***************************************************************************)
\* the unit carries the broken condition
broken == includes(unit.conditions, "broken")

\* C19 as stated: takeCasualties(u, n) leaves current = max(0, current - n),
\* and the conditions hold "broken" exactly when that is 0
C19_TakeCasualties ==
  ulast.op = "takeCasualties" =>
    /\ unit.casualtyDie.current =
         IF ulast.current - ulast.casualties > 0 THEN ulast.current - ulast.casualties ELSE 0
    /\ broken <=> unit.casualtyDie.current = 0

\* C19 amended: takeCasualties(u, n) leaves current = max(0, current - n),
\* and the conditions hold "broken" exactly when that is 0 or u already
\* held "broken"
C19_TakeCasualtiesKeepsBroken ==
  ulast.op = "takeCasualties" =>
    /\ unit.casualtyDie.current =
         IF ulast.current - ulast.casualties > 0 THEN ulast.current - ulast.casualties ELSE 0
    /\ broken <=> (unit.casualtyDie.current = 0 \/ ulast.broken)

\* casualties brought the die of an unbroken unit to 0 and broke it
C19_Witness ==
  /\ ulast.op = "takeCasualties"
  /\ ulast.current > 0
  /\ ~ulast.broken
  /\ unit.casualtyDie.current = 0
  /\ broken

\* rallyCasualties(takeCasualties(u, n), n) was just computed
rallied ==
  /\ ulast.op = "rallyCasualties"
  /\ ulast.prior.op = "takeCasualties"
  /\ ulast.prior.casualties = ulast.casualties

\* C20 as stated: rallyCasualties(takeCasualties(u, n), n) has the current
\* of u (min(u.current, u.max))
C20_RallyRestores ==
  rallied =>
    unit.casualtyDie.current =
      IF ulast.prior.current <= unit.casualtyDie.max THEN ulast.prior.current
      ELSE unit.casualtyDie.max

\* C20 amended: rallyCasualties(takeCasualties(u, n), n) has current
\* min(max(u.current, n), u.max), which is u.current when n <= u.current
C20_RallyRestoresUpTo ==
  rallied =>
    LET raised == IF ulast.prior.current >= ulast.casualties THEN ulast.prior.current
                  ELSE ulast.casualties
    IN unit.casualtyDie.current =
         IF raised <= unit.casualtyDie.max THEN raised ELSE unit.casualtyDie.max

\* a unit took more casualties than its die held and rallied by as many
C20_Witness ==
  /\ rallied
  /\ ulast.casualties > ulast.prior.current
  /\ unit.casualtyDie.current = ulast.casualties
  /\ unit.casualtyDie.current < unit.casualtyDie.max

(***************************************************************************)
(* Domain: defense scores and resources                                    *)
(***************************************************************************)
\* C21: after createDomain with any supplied skills object, partial ones
\* included, and after any sequence of updateSkills calls, the stored defense
\* scores are 10 + floor of half the sum of the two stored skills behind
\* each: diplomacy and espionage for communications, diplomacy and lore for
\* resolve, operations and lore for resources.
C21_DefenseScores ==
  /\ domain.defenseScores.communications =
       10 + ((domain.skills.diplomacy + domain.skills.espionage) \div 2)
  /\ domain.defenseScores.resolve =
       10 + ((domain.skills.diplomacy + domain.skills.lore) \div 2)
  /\ domain.defenseScores.resources =
       10 + ((domain.skills.operations + domain.skills.lore) \div 2)

\* C22: the resources of a domain are never negative, whatever integer
\* amounts addResources and removeResources are called with.
C22_ResourcesNeverNegative == domain.resources >= 0

\* C30: updateSkills(d, {espionage: d.skills.espionage + 4}) raises the
\* communications score by exactly 2 and leaves the resolve and resources
\* scores, the defense levels, the resources, the units and the officers as
\* they were. A score that is NaN equals nothing, itself included.
C30_EspionagePlusFour ==
  [][(/\ dlast'.op = "updateSkills"
      /\ dlast'.key = DOMAIN_SKILLS.ESPIONAGE
      /\ domain'.skills.espionage = domain.skills.espionage + 4)
     => /\ domain.defenseScores.communications # NaN
        /\ domain'.defenseScores.communications = domain.defenseScores.communications + 2
        /\ domain.defenseScores.resolve # NaN
        /\ domain'.defenseScores.resolve = domain.defenseScores.resolve
        /\ domain.defenseScores.resources # NaN
        /\ domain'.defenseScores.resources = domain.defenseScores.resources
        /\ domain'.defenseLevels = domain.defenseLevels
        /\ domain'.resources = domain.resources
        /\ domain'.units = domain.units
        /\ domain'.officers = domain.officers]_vars

(***************************************************************************)
(* Unit: the casualty die stays in range, the derived stats of a new unit  *)
(***************************************************************************)
\* C28: every takeCasualties and rallyCasualties call with n >= 0 on a unit
\* that began as createUnit made it leaves 0 <= casualtyDie.current <=
\* casualtyDie.max, leaves casualtyDie.max as it was, and leaves "broken" in
\* the conditions at most once.
C28_CasualtyDieInRange ==
  [][ulast'.op \in {"takeCasualties", "rallyCasualties"}
     => /\ 0 <= unit'.casualtyDie.current
        /\ unit'.casualtyDie.current <= unit'.casualtyDie.max
        /\ unit'.casualtyDie.max = unit.casualtyDie.max
        /\ Cardinality({i \in 1..Len(unit'.conditions) :
                          unit'.conditions[i] = UNIT_CONDITIONS.BROKEN}) <= 1]_vars

\* a rally by more than the die lacks has filled it and no further, and a
\* broken unit has taken casualties again
C28_Witness ==
  \/ /\ ulast.op = "rallyCasualties"
     /\ ulast.current + ulast.casualties > unit.casualtyDie.max
     /\ unit.casualtyDie.current = unit.casualtyDie.max
  \/ /\ ulast.op = "takeCasualties"
     /\ ulast.broken
     /\ ulast.casualties > ulast.current
     /\ unit.casualtyDie.current = 0

\* C29: createUnit gives, for every type and every tier 1..5 with base
\* 1, 1, 2, 2, 3: attacks = max(1, base - 1 for artillery), damage = base + 1
\* for cavalry and artillery, casualtyDie.max = max(1, tier - 1 for artillery
\* and aerial); attacks and the die are at least 1 and the die starts full.
C29_DerivedStats ==
  ulast.op = "createUnit" =>
    LET base == IF unit.tier <= 2 THEN 1 ELSE IF unit.tier <= 4 THEN 2 ELSE 3
        lessAttacks == IF unit.type = "artillery" THEN 1 ELSE 0
        moreDamage == IF unit.type \in {"cavalry", "artillery"} THEN 1 ELSE 0
        smallerDie == IF unit.type \in {"artillery", "aerial"} THEN 1 ELSE 0
    IN /\ unit.tier \in 1..5
       /\ unit.stats.attacks = (IF base - lessAttacks >= 1 THEN base - lessAttacks ELSE 1)
       /\ unit.stats.damage = base + moreDamage
       /\ unit.casualtyDie.max = (IF unit.tier - smallerDie >= 1
                                  THEN unit.tier - smallerDie ELSE 1)
       /\ unit.stats.attacks >= 1
       /\ unit.casualtyDie.max >= 1
       /\ unit.casualtyDie.current = unit.casualtyDie.max

\* a new tier 1 artillery unit: base 1 less 1 is raised to the minimum
C29_Witness ==
  /\ ulast.op = "createUnit"
  /\ unit.type = UNIT_TYPES.ARTILLERY
  /\ unit.tier = UNIT_TIERS.I
  /\ unit.stats.attacks = 1
  /\ unit.casualtyDie.current = 1

(***************************************************************************)
(* A battle from creation to the second round                              *)
(***************************************************************************)
\* C25: from a new battle, adding domains A and B and units u1 (A) and u2
\* (B), deployUnit(u1, vanguard, left) places u1 there; deployUnit(u2,
\* vanguard, left) is a no-op and u2 stays in not_deployed; deployUnit(u2,
\* vanguard, right) succeeds; after setInitiative([u1, u2]) startBattle gives
\* phase battle and round 1; activateUnit(u1) succeeds and is logged and
\* activateUnit(u2) is a no-op; endTurn gives currentTurn 1 with u1 no longer
\* activated; the second endTurn gives currentTurn 0 and round 2 with
\* round_end and then round_start logged.
C25_Scenario ==
  battle = createBattle =>
    LET b1 == addDomain(battle, "A").b
        b2 == addDomain(b1, "B").b
        b3 == addUnit(b2, "u1", "A").b
        b4 == addUnit(b3, "u2", "B").b
        d1 == deployUnit(b4, "u1", BATTLE_RANKS.VANGUARD, GRID_POSITIONS.LEFT)
        d2 == deployUnit(d1.b, "u2", BATTLE_RANKS.VANGUARD, GRID_POSITIONS.LEFT)
        d3 == deployUnit(d2.b, "u2", BATTLE_RANKS.VANGUARD, GRID_POSITIONS.RIGHT)
        b5 == setInitiative(d3.b, <<"u1", "u2">>).b
        b6 == startBattle(b5).b
        a1 == activateUnit(b6, "u1")
        a2 == activateUnit(a1.b, "u2")
        e1 == endTurn(a2.b).b
        e2 == endTurn(e1).b
    IN /\ d1.b.grid.vanguard.left = "u1"
       /\ d1.b.units["u1"].position = [rank |-> "vanguard", column |-> "left"]
       /\ d2.same
       /\ includes(d2.b.grid.not_deployed, "u2")
       /\ ~d3.same
       /\ d3.b.grid.vanguard.right = "u2"
       /\ b6.phase = "battle"
       /\ b6.round = 1
       /\ ~a1.same
       /\ a1.b.units["u1"].activated
       /\ a1.b.log[Len(a1.b.log)] = [type |-> "unit_activated", unitId |-> "u1"]
       /\ a2.same
       /\ e1.currentTurn = 1
       /\ ~e1.units["u1"].activated
       /\ e2.currentTurn = 0
       /\ e2.round = 2
       /\ Len(e2.log) >= 2
       /\ e2.log[Len(e2.log) - 1] = [type |-> "round_end", round |-> 1]
       /\ e2.log[Len(e2.log)] = [type |-> "round_start", round |-> 2]

(***************************************************************************)
(* The logs only grow                                                      *)
(***************************************************************************)
IsPrefix(s, t) == Len(s) <= Len(t) /\ SubSeq(t, 1, Len(s)) = s

\* C27: every call on a battle leaves the log it had as a prefix of the log
\* it has, and every call on an intrigue does so for the log and for the
\* turns.
C27_AppendOnly ==
  [][/\ IsPrefix(battle.log, battle'.log)
     /\ IsPrefix(intrigue.log, intrigue'.log)
     /\ IsPrefix(intrigue.turns, intrigue'.turns)]_vars

\* logEvent has added to a battle log that held entries, or a second turn
\* was taken in an intrigue
C27_Witness ==
  \/ /\ last.op = "logEvent"
     /\ Len(battle.log) >= 2
     /\ battle.log[Len(battle.log)].type \in Events
  \/ /\ ilast.op = "takeTurn"
     /\ Len(intrigue.turns) >= 2
     /\ Len(intrigue.log) >= 3

(***************************************************************************)
(* Dice notation                                                           *)
(***************************************************************************)
\* the notation is [count]d<sides>[+|-modifier] from its first character to
\* its last: digits or nothing, the letter d, digits, and then nothing or a
\* sign and digits
wellFormed(str) ==
  \E d \in 1..Len(str), e \in 1..Len(str) :
    /\ d < e
    /\ str[d] = "d"
    /\ \A k \in 1..(d - 1) : isDigit(str[k])
    /\ \A k \in (d + 1)..e : isDigit(str[k])
    /\ \/ e = Len(str)
       \/ /\ e + 1 < Len(str)
          /\ str[e + 1] \in {"+", "-"}
          /\ \A k \in (e + 2)..Len(str) : isDigit(str[k])

\* C26: rollFromNotation on a notation of the form [count]d<sides>[+|-modifier]
\* rolls exactly count dice (1 when the count is left out), each in 1..sides,
\* and its result is their sum plus the signed modifier; on every other
\* string it throws.
C26_RollFromNotation ==
  roll.called =>
    IF wellFormed(roll.notation)
    THEN LET str == roll.notation
             d == CHOOSE k \in 1..Len(str) : str[k] = "d"
             e == d + digitRun(str, d + 1)
             count == IF d = 1 THEN 1 ELSE parseInt(SubSeq(str, 1, d - 1))
             sides == parseInt(SubSeq(str, d + 1, e))
             modifier == IF e = Len(str) THEN 0
                         ELSE IF str[e + 1] = "+" THEN parseInt(SubSeq(str, e + 2, Len(str)))
                         ELSE 0 - parseInt(SubSeq(str, e + 2, Len(str)))
         IN /\ ~roll.threw
            /\ Len(roll.rolls) = count
            /\ \A k \in 1..Len(roll.rolls) : roll.rolls[k] \in 1..sides
            /\ roll.result = sum(roll.rolls) + modifier
    ELSE roll.threw

(***************************************************************************)
(* Storage: deletion and the indexes                                       *)
(***************************************************************************)
\* C23: after deleteUnit(unitId) has succeeded the id is in the units list
\* of no stored domain and in the units map, the grid and the initiative of
\* no stored battle.
C23_DeleteUnitEverywhere ==
  (slast.op = "deleteUnit" /\ slast.ok) =>
    /\ \A d \in DOMAIN store.domains : ~includes(store.domains[d].units, slast.id)
    /\ \A b \in DOMAIN store.battles :
         /\ slast.id \notin DOMAIN store.battles[b].units
         /\ slast.id \notin gridIds(store.battles[b])
         /\ ~includes(store.battles[b].initiative, slast.id)

\* the index of a kind lists exactly the stored ids, each once
indexed(s) ==
  \A kind \in Kinds :
    /\ \A id \in UnitIds \cup DomainIds \cup BattleIds \cup IntrigueIds :
         includes(s.index[kind], id) <=> id \in DOMAIN s[kind]
    /\ \A i, j \in 1..Len(s.index[kind]) :
         s.index[kind][i] = s.index[kind][j] => i = j

\* the ids of `before` that `after` still lists are in the order they had,
\* and the ids new to `after` come behind them
insertionOrder(before, after) ==
  \A i, j \in 1..Len(after) :
    i < j =>
      \/ ~includes(before, after[j])
      \/ /\ includes(before, after[i])
         /\ \E a, b \in 1..Len(before) :
              a < b /\ before[a] = after[i] /\ before[b] = after[j]

\* C24: through every sequence of save and delete calls on units, domains,
\* battles and intrigues an id is in the index of its kind exactly when the
\* entity is stored under its key, no index lists an id twice, and every
\* index keeps its ids in the order they were first inserted.
C24_IndexConsistent ==
  [][/\ indexed(store)
     /\ indexed(store')
     /\ \A kind \in Kinds : insertionOrder(store.index[kind], store'.index[kind])]_vars

\* a unit that was deleted and saved again is listed behind the one that
\* stayed, with both domains listed as well
C24_Witness ==
  /\ slast.op = "saveUnit"
  /\ slast.id = "u1"
  /\ store.index.units = <<"u2", "u1">>
  /\ Len(store.index.domains) = 2

(***************************************************************************)
(* The turn pointer of the battle                                          *)
(***************************************************************************)
\* C31: currentTurn is always an integer, also after endTurn with an empty
\* initiative, and whenever the initiative is not empty it is an index into
\* it: 0 <= currentTurn < initiative.length, also after removeUnit,
\* removeDomain or setInitiative have shortened the initiative.
C31_CurrentTurnInRange ==
  /\ battle.currentTurn # NaN
  /\ Len(battle.initiative) > 0 =>
       (0 <= battle.currentTurn /\ battle.currentTurn < Len(battle.initiative))

(***************************************************************************)
(* The turn pointer and the initiator of the intrigue                      *)
(***************************************************************************)
\* C32: in phase active currentDomainIndex is an index into turnOrder and
\* turnOrder[currentDomainIndex] is a member domain, so that takeTurn is
\* accepted for exactly one domain; removing a domain during the active
\* phase does not leave a session in which takeTurn is refused for every
\* member.
C32_TurnPointerValid ==
  intrigue.phase = INTRIGUE_PHASES.ACTIVE =>
    /\ intrigue.currentDomainIndex # NaN
    /\ 0 <= intrigue.currentDomainIndex
    /\ intrigue.currentDomainIndex < Len(intrigue.turnOrder)
    /\ includes(intrigue.domains, At(intrigue.turnOrder, intrigue.currentDomainIndex))
    /\ Cardinality({d \in IntrigueDomainIds :
                      ~takeTurn(intrigue, d, INTRIGUE_ACTION_TYPES.SPECIAL).same}) = 1

\* the initiator is null or a member
initiatorMember(i) == i.initiator = Null \/ includes(i.domains, i.initiator)

\* C33: the initiator of an intrigue is always null or a member of domains;
\* removeDomain of the initiator clears it and takes the domain out of
\* turnOrder, so that after removeDomain turnOrder names no domain that is
\* not a member.
C33_InitiatorMember ==
  /\ initiatorMember(intrigue)
  /\ ilast.op = "removeDomain" =>
       \A k \in 1..Len(intrigue.turnOrder) :
         includes(intrigue.domains, intrigue.turnOrder[k])

\* C33, amended: the initiator of an intrigue is always null or a member of
\* domains; after removeDomain the domain that left is neither the initiator
\* nor in turnOrder, and turnOrder names a non-member only if it named that
\* domain before the call.
C33_InitiatorMemberRemovedGone ==
  [][/\ initiatorMember(intrigue)
     /\ initiatorMember(intrigue')
     /\ ilast'.op = "removeDomain" =>
          /\ \A d \in IntrigueDomainIds :
               (includes(intrigue.domains, d) /\ ~includes(intrigue'.domains, d))
               => (intrigue'.initiator # d /\ ~includes(intrigue'.turnOrder, d))
          /\ \A k \in 1..Len(intrigue'.turnOrder) :
               \/ includes(intrigue'.domains, intrigue'.turnOrder[k])
               \/ includes(intrigue.turnOrder, intrigue'.turnOrder[k])]_vars

\* an intrigue that was started, and so had an initiator, has lost it to
\* removeDomain, and the turn order lost the domain with it
C33_Witness ==
  /\ ilast.op = "removeDomain"
  /\ intrigue.phase = INTRIGUE_PHASES.ACTIVE
  /\ intrigue.initiator = Null
  /\ Len(intrigue.domains) >= 1
  /\ Len(intrigue.turnOrder) = 1

(***************************************************************************)
(* Removal of units and domains from a battle                              *)
(***************************************************************************)
\* battle c is battle b without the units ids: they are gone from the units
\* map, from every grid location and from the initiative, and every other
\* unit is as it was, where it was, in the order it was
without(b, c, ids) ==
  /\ DOMAIN c.units = (DOMAIN b.units) \ ids
  /\ gridIds(c) \cap ids = {}
  /\ \A k \in 1..Len(c.initiative) : c.initiative[k] \notin ids
  /\ \A v \in DOMAIN c.units :
       /\ c.units[v] = b.units[v]
       /\ cellsOf(c, v) = cellsOf(b, v)
  /\ \A rank \in ListRanks :
       c.grid[rank] = SelectSeq(b.grid[rank], LAMBDA id : id \notin ids)
  /\ c.initiative = SelectSeq(b.initiative, LAMBDA id : id \notin ids)

C35_NoIndexEntryLost ==
  (/\ \A c \in Commands : inflight[c].at = "done"
   /\ \A c, o \in Commands : inflight[c].kind = inflight[o].kind)
  => \A c \in Commands : includes(store.index[inflight[c].kind], inflight[c].id)

(***************************************************************************)
(* The cycle of turns of the intrigue                                      *)
(***************************************************************************)
\* the k-th accepted turn, k from 0, is by turnOrder[k mod turnOrder.length]
cyclic(i) ==
  \A k \in 0..(Len(i.turns) - 1) :
    /\ Len(i.turnOrder) > 0
    /\ i.turns[k + 1].domainId = At(i.turnOrder, k % Len(i.turnOrder))

\* the number of turns of domain d in cycle c, c from 0, of n turns each
turnsInCycle(i, d, c, n) ==
  Cardinality({k \in (c * n)..(c * n + n - 1) : i.turns[k + 1].domainId = d})

\* in every cycle that is complete every member has exactly one turn, and
\* with two or more members no domain has two turns in a row
oneTurnEach(i) ==
  LET n == Len(i.turnOrder)
  IN /\ n > 0 =>
          \A c \in 0..((Len(i.turns) \div n) - 1) :
            \A k \in 1..Len(i.domains) : turnsInCycle(i, i.domains[k], c, n) = 1
     /\ Len(i.domains) >= 2 =>
          \A k \in 1..(Len(i.turns) - 1) : i.turns[k].domainId # i.turns[k + 1].domainId

\* turnOrder names every member once and nothing else
orderOfMembers(i) ==
  /\ Len(i.turnOrder) = Len(i.domains)
  /\ \A k \in 1..Len(i.domains) : occurrences(i.turnOrder, i.domains[k]) = 1

\* C36: while the intrigue is active, with no domain removed and no
\* setTurnOrder since it became active, the k-th accepted turn is by
\* turnOrder[k mod turnOrder.length], every domain has exactly one turn in
\* each cycle and, with two or more domains, none has two turns in a row.
C36_TurnsCyclic ==
  intrigue.phase = INTRIGUE_PHASES.ACTIVE =>
    cyclic(intrigue) /\ oneTurnEach(intrigue)

\* C36, amended: while the intrigue is active, with no domain removed and
\* no setTurnOrder since it became active, the k-th accepted turn is by
\* turnOrder[k mod turnOrder.length]; when turnOrder names every member
\* exactly once, every member has exactly one turn in each cycle and, with
\* two or more members, none has two turns in a row.
C36_TurnsCyclicInOrder ==
  intrigue.phase = INTRIGUE_PHASES.ACTIVE =>
    /\ cyclic(intrigue)
    /\ orderOfMembers(intrigue) => oneTurnEach(intrigue)

\* a cycle of two domains is complete and the turn is back with the first
C36_Witness ==
  /\ intrigue.phase = INTRIGUE_PHASES.ACTIVE
  /\ orderOfMembers(intrigue)
  /\ Len(intrigue.turnOrder) = 2
  /\ Len(intrigue.turns) = 2
  /\ intrigue.currentDomainIndex = 0

(***************************************************************************)
(* Activation, rounds and the log of the battle                            *)
(***************************************************************************)
\* C37: in phase battle at most one unit is activated, and it is the unit
\* at initiative[currentTurn]; after an endTurn no unit but the new current
\* one is activated, whatever calls came before, setInitiative and
\* removeUnit during the battle among them.
C37_OneActivated ==
  battle.phase = BATTLE_PHASES.BATTLE =>
    \A u \in DOMAIN battle.units :
      battle.units[u].activated => At(battle.initiative, battle.currentTurn) = u

\* the number of round_start entries of the log
roundStarts(b) == Cardinality({k \in 1..Len(b.log) : b.log[k].type = "round_start"})

\* round is 0 in setup and nowhere else, and once the battle has started the
\* log holds one round_start for every round after the first
roundCounted(b) ==
  /\ b.round = 0 <=> b.phase = BATTLE_PHASES.SETUP
  /\ b.phase \in {BATTLE_PHASES.BATTLE, BATTLE_PHASES.AFTERMATH} => b.round >= 1
  /\ b.phase # BATTLE_PHASES.SETUP => roundStarts(b) = b.round - 1

sameBattle(x, y) ==
  /\ x.domains = y.domains
  /\ x.units = y.units
  /\ x.grid = y.grid
  /\ x.initiative = y.initiative

\* the grid and the initiative name units of the units map only
noneLeftBehind(b) ==
  /\ gridIds(b) \ {Null} \subseteq DOMAIN b.units
  /\ \A k \in 1..Len(b.initiative) : b.initiative[k] \in DOMAIN b.units

\* C39: on every stored battle addUnitToBattle, removeUnitFromBattle and
\* removeDomainFromBattle leave the domains, units, grid and initiative that
\* addUnit, removeUnit and removeDomain of the battle engine return for the
\* same arguments; after removeDomainFromBattle the grid and the initiative
\* name no unit that the units map has lost.
C39_BattleHelpersAgree ==
  \A id \in DOMAIN store.battles :
    LET b == store.battles[id]
    IN /\ \A u \in UnitIds, d \in DomainIds :
            sameBattle(addUnitToBattle(store, env, id, u, d).s.battles[id],
                       addUnit(b, u, d).b)
       /\ \A u \in UnitIds :
            sameBattle(removeUnitFromBattle(store, id, u).s.battles[id],
                       removeUnit(b, u).b)
       /\ \A d \in DomainIds :
            /\ sameBattle(removeDomainFromBattle(store, id, d).s.battles[id],
                          removeDomain(b, d).b)
            /\ noneLeftBehind(b) =>
                 noneLeftBehind(removeDomainFromBattle(store, id, d).s.battles[id])

\* C40: on every stored intrigue addIntrigueTurn leaves the session that
\* takeTurn of the intrigue engine returns for the same arguments: it
\* records a turn and advances currentDomainIndex only in phase active and
\* only for the domain at turnOrder[currentDomainIndex]; and
\* removeDomainFromIntrigue and deleteDomain take the domain out of
\* turnOrder as removeDomain of the intrigue engine does.
C40_IntrigueHelpersAgree ==
  \A id \in DOMAIN store.intrigues :
    LET i == store.intrigues[id]
    IN \A d \in DomainIds :
         /\ \A action \in IntrigueActions :
              addIntrigueTurn(store, id, d, action).s.intrigues[id]
                = takeTurn(i, d, action).b
         /\ removeDomainFromIntrigue(store, id, d).s.intrigues[id]
              = intrigueRemoveDomain(i, d).b
         /\ d \in DOMAIN store.domains =>
              deleteDomain(store, d).s.intrigues[id].turnOrder
                = intrigueRemoveDomain(i, d).b.turnOrder

====
